---- MODULE Spec2Model ----
(***************************************************************************)
(* A model of the dependency-injection container of wbreza/container:      *)
(* registries (Container) chained by a parent link, bindings with a        *)
(* lifetime and a cache slot (binding.concrete), registration through      *)
(* Container.bind, resolution through Container.make / binding.make /      *)
(* Container.invoke / Container.arguments, scopes through NewScope, and     *)
(* Call, Fill and Validate on top of them.                                 *)
(*                                                                         *)
(* Values are integers: 0 is nil, 1..MaxInstances are the instances the    *)
(* factories create (a factory call returns a fresh pointer), 11.. are the *)
(* resolver functions, 21.. receivers, 31.. structures, 101.. precomputed  *)
(* instances, 201.. contexts, 301 what a failing factory returns.          *)
(***************************************************************************)
EXTENDS Integers, Sequences, FiniteSets, TLC

\* ------------------------------------------------------------------ bounds
MaxContainers == 3
MaxInstances == 3
MaxChanges == 2
MaxThreads == 2

\* --------------------------------------------------------------- constants
Singleton == "singleton"
Transient == "transient"
Scoped == "scoped"
Lifetimes == {Singleton, Transient, Scoped}

Nil == 0
NoResolver == 0
NoParent == 0
NilCtx == 0

Types == {"Options", "Database"}
Names == {"", "main"}

\* context.Context, the type of the parameters that receive the context.
ContextType == "Context"
Keys == (Types \cup {ContextType}) \X Names

\* The resolver functions of the tests:
\*   NewOptions  : func() *DatabaseOptions
\*   NewDatabase : func(options *DatabaseOptions) (Database, error)
NewOptions == 11
NewDatabase == 12
Funcs == {NewOptions, NewDatabase}

\* Functions the registration rejects, or is meant to reject:
\*   CloneOptions   : func(options *DatabaseOptions) *DatabaseOptions
\*   ReturnsNothing : func()
\*   ReturnsThree   : func() (*DatabaseOptions, Database, error)
\*   ReturnsTwo     : func() (*DatabaseOptions, Database)
CloneOptions == 13
ReturnsNothing == 14
ReturnsThree == 15
ReturnsTwo == 16
OddFuncs == {CloneOptions, ReturnsNothing, ReturnsThree, ReturnsTwo}

\* Functions with a context parameter, and one that returns a context:
\*   NewContext    : func() context.Context
\*   OpenDatabase  : func(ctx context.Context, options *DatabaseOptions)
\*                       (Database, error)
\*   OptionsFor    : func(ctx context.Context) *DatabaseOptions
NewContext == 17
OpenDatabase == 18
OptionsFor == 19
ContextFuncs == {NewContext, OpenDatabase, OptionsFor}

\* A factory without parameters that can fail:
\*   LoadOptions : func() (*DatabaseOptions, error)
LoadOptions == 20
LoaderFuncs == {LoadOptions}

\* A receiver function handed to Call:
\*   UseDatabase : func(db Database) error
\*   UseContext  : func(ctx context.Context, options *DatabaseOptions) error
UseDatabase == 21
UseContext == 22
Receivers == {UseDatabase}
ContextReceivers == {UseContext}

\* Receivers with another result than one error:
\*   CountInt      : func() int
\*   NoOptions     : func() *DatabaseOptions { return nil }
\*   CountAndError : func(options *DatabaseOptions) (int, error)
CountInt == 23
NoOptions == 24
CountAndError == 25
OddReceivers == {CountInt, NoOptions, CountAndError}

\* A factory that closes a cycle with NewDatabase, which needs the options
\* this factory makes from a database:
\*   OptionsOf : func(db Database) *DatabaseOptions
OptionsOf == 26
CycleFuncs == {OptionsOf}

\* Receivers with two parameters that are resolved:
\*   UseBoth    : func(options *DatabaseOptions, db Database)
\*   UseReverse : func(db Database, options *DatabaseOptions)
UseBoth == 27
UseReverse == 28
PairReceivers == {UseBoth, UseReverse}

\* A factory that returns the nil value of an interface type and no error:
\*   NilDatabase : func() Database { return nil }
NilDatabase == 29
NilFuncs == {NilDatabase}

\* A structure handed to Fill by pointer:
\*   Service : struct { Options *DatabaseOptions `container:"type"`
\*                      Database Database        `container:"type"`
\*                      X string }
Service == 31
Structures == {Service}

\* More structures:
\*   Named    : struct { main *DatabaseOptions    `container:"name"`
\*                       Options *DatabaseOptions `container:"type"`
\*                       y int }
\*   Reversed : struct { Database Database        `container:"type"`
\*                       Options *DatabaseOptions `container:"type"` }
\*   BadFirst : struct { S *DatabaseOptions       `container:"invalid"`
\*                       Options *DatabaseOptions `container:"type"` }
\*   BadLast  : struct { Options *DatabaseOptions `container:"type"`
\*                       S *DatabaseOptions       `container:"invalid"` }
Named == 32
Reversed == 33
BadFirst == 34
BadLast == 35
MoreStructures == {Named, Reversed, BadFirst, BadLast}

Field(name, type, tag) == [name |-> name, type |-> type, tag |-> tag]
Fields(s) ==
    IF s = Named
    THEN <<Field("main", "Options", "name"),
           Field("Options", "Options", "type"),
           Field("y", "int", "")>>
    ELSE IF s = Reversed
    THEN <<Field("Database", "Database", "type"),
           Field("Options", "Options", "type")>>
    ELSE IF s = BadFirst
    THEN <<Field("S", "Options", "invalid"),
           Field("Options", "Options", "type")>>
    ELSE IF s = BadLast
    THEN <<Field("Options", "Options", "type"),
           Field("S", "Options", "invalid")>>
    ELSE <<Field("Options", "Options", "type"),
           Field("Database", "Database", "type"),
           Field("X", "string", "")>>

\* A precomputed instance (&DatabaseOptions{...}) handed to the container.
OptionsValue == 101
Values == {OptionsValue}

\* context.Background() and a second context, say context.TODO().
Background == 201
Todo == 202
Contexts == {NilCtx, Background, Todo}

\* What a factory returns next to a non-nil error (return values[0], err):
\* some value, which no caller may use.
Discarded == 301

\* reflect.TypeOf(x).Kind() == reflect.Func
IsFunc(x) ==
    x \in Funcs \cup OddFuncs \cup ContextFuncs \cup LoaderFuncs
            \cup Receivers \cup ContextReceivers \cup OddReceivers
            \cup CycleFuncs \cup PairReceivers \cup NilFuncs

\* reflect.TypeOf(f).In(i), for all i
In(f) ==
    IF f = NewDatabase THEN <<"Options">>
    ELSE IF f = UseDatabase THEN <<"Database">>
    ELSE IF f = CloneOptions THEN <<"Options">>
    ELSE IF f = OpenDatabase THEN <<ContextType, "Options">>
    ELSE IF f = OptionsFor THEN <<ContextType>>
    ELSE IF f = UseContext THEN <<ContextType, "Options">>
    ELSE IF f = CountAndError THEN <<"Options">>
    ELSE IF f = OptionsOf THEN <<"Database">>
    ELSE IF f = UseBoth THEN <<"Options", "Database">>
    ELSE IF f = UseReverse THEN <<"Database", "Options">>
    ELSE << >>

\* reflect.TypeOf(f).Out(i), for all i
Out(f) ==
    IF f = NewOptions THEN <<"Options">>
    ELSE IF f = NewDatabase THEN <<"Database", "error">>
    ELSE IF f = UseDatabase THEN <<"error">>
    ELSE IF f = CloneOptions THEN <<"Options">>
    ELSE IF f = ReturnsThree THEN <<"Options", "Database", "error">>
    ELSE IF f = ReturnsTwo THEN <<"Options", "Database">>
    ELSE IF f = NewContext THEN <<ContextType>>
    ELSE IF f = OpenDatabase THEN <<"Database", "error">>
    ELSE IF f = OptionsFor THEN <<"Options">>
    ELSE IF f = LoadOptions THEN <<"Options", "error">>
    ELSE IF f = UseContext THEN <<"error">>
    ELSE IF f = CountInt THEN <<"int">>
    ELSE IF f = NoOptions THEN <<"Options">>
    ELSE IF f = CountAndError THEN <<"int", "error">>
    ELSE IF f = OptionsOf THEN <<"Options">>
    ELSE IF f = NilDatabase THEN <<"Database">>
    ELSE << >>

\* reflect.TypeOf(v) of a value that is not a function
TypeOf(v) == "Options"

\* The factories whose second result can be a non-nil error.
Fallible == {f \in Funcs : Len(Out(f)) = 2 /\ Out(f)[2] = "error"}

\* ------------------------------------------------------------------ errors
\* An error is the chain of what errors.Is sees, outermost first; << >> is nil.
Err(k, t) == [k |-> k, t |-> t]
NoError == << >>
ErrInvalidResolver == <<Err("InvalidResolver", "")>>
ErrInvalidAbstraction == <<Err("InvalidAbstraction", "")>>
ErrContextRequired == <<Err("ContextRequired", "")>>
ErrBindingNotFound(t) == <<Err("BindingNotFound", t)>>
ErrResolutionOnly(t, err) == <<Err("ResolutionFailed", t)>>
ErrResolutionFailed(t, err) == <<Err("ResolutionFailed", t)>> \o err
ErrFactory(f) == <<Err("FactoryError", Out(f)[1])>>
ErrInvalidReceiver == <<Err("InvalidReceiver", "")>>
ErrInvalidStructure == <<Err("InvalidStructure", "")>>
ErrReceiver == <<Err("ReceiverError", "")>>
ErrPanic == <<Err("panic", "")>>
\* The goroutine's stack has grown past its limit: the runtime ends the
\* process and the operation does not return.
ErrStackOverflow == <<Err("StackOverflow", "")>>

ErrIs(err, k) == \E i \in 1..Len(err) : err[i].k = k

\* -------------------------------------------------------------------- maps
EmptyMap == << >>
MapPut(m, k, v) == [x \in (DOMAIN m) \cup {k} |-> IF x = k THEN v ELSE m[x]]

\* ------------------------------------------------------------------- state
\* parent[c]    Container.parent (NoParent for the root)
\* bindings[c]  Container.bindings: type -> name -> binding
\* instances[i] the factory call that created instance i and its arguments
\* got[c][k]    what the latest successful resolution of key k through c
\*              (c.make, for a request or for a dependency) returned, since
\*              the binding c uses for k was last replaced or dropped
\* changes      number of registrations and resets made so far
\* last         the latest operation and what it returned
\* threads      for each thread of control that resolves concurrently, how
\*              far its call of ResolveNamed has got: pc is idle, invoke
\*              (binding.make found the cache empty), store (the factory
\*              has returned) or done (the call has returned)
VARIABLES parent, bindings, instances, got, changes, last, threads

vars == <<parent, bindings, instances, got, changes, last, threads>>

Containers == 1..Len(parent)
Root == 1

\* The threads of control that call ResolveNamed concurrently; a thread
\* that is not inside a call is idle.
Threads == 1..MaxThreads

Idle ==
    [pc |-> "idle", c |-> 0, t |-> "", o |-> 0, seen |-> 0, val |-> 0,
     err |-> << >>, stored |-> FALSE]

\* binding{resolver, concrete, lifetime}
Binding(resolver, concrete, lifetime) ==
    [resolver |-> resolver, concrete |-> concrete, lifetime |-> lifetime]

\* found, exist := current.bindings[t][name]
Has(b, c, t, n) == t \in DOMAIN b[c] /\ n \in DOMAIN b[c][t]

\* The registries from c outward: c, parent(c), ...
RECURSIVE Chain(_, _)
Chain(par, c) ==
    IF par[c] = NoParent THEN <<c>> ELSE <<c>> \o Chain(par, par[c])

ChainSet(par, c) == {Chain(par, c)[i] : i \in 1..Len(Chain(par, c))}

\* Container.make looking in the registry's own map only.
FindOwnOnly(b, par, c, t, n) ==
    IF Has(b, c, t, n) THEN c ELSE 0

\* Container.make preferring the outermost registry that has the key.
RECURSIVE FindOutermost(_, _, _, _, _)
FindOutermost(b, par, c, t, n) ==
    LET up == IF par[c] = NoParent THEN 0
              ELSE FindOutermost(b, par, par[c], t, n) IN
    IF up # 0 THEN up
    ELSE IF Has(b, c, t, n) THEN c ELSE 0

\* The loop of Container.make: the nearest registry whose map has the key.
RECURSIVE Find(_, _, _, _, _)
Find(b, par, c, t, n) ==
    IF Has(b, c, t, n) THEN c
    ELSE IF par[c] = NoParent THEN 0
    ELSE Find(b, par, par[c], t, n)

\* --------------------------------------------------------- resolution engine
\* The engine threads a world w = [b, i, g, calls]: the bindings of all
\* registries, the instances created so far, what the resolutions returned,
\* and the factory calls of the running operation in the order they were
\* made.  Its stack holds the keys whose factories the running operation is
\* in the course of invoking, one inside the other.
\* The one element of a set of one element; it gives a name to a value that
\* is needed more than once.
Pick(S) == CHOOSE x \in S : TRUE

World(b, i, g) ==
    [b |-> b, i |-> i, g |-> g, calls |-> << >>, stack |-> {}]
Result(w, val, err) == [w |-> w, val |-> val, err |-> err]

\* A call of function f with arguments args that returned instance val (Nil
\* when it returned no instance).
Called(f, args, val) == [f |-> f, args |-> args, val |-> val]

\* A store into a record that every registry binding the key with the same
\* factory shares.
SetConcreteShared(b, o, t, n, v) ==
    [c \in DOMAIN b |->
        IF /\ t \in DOMAIN b[c]
           /\ n \in DOMAIN b[c][t]
           /\ b[c][t][n].resolver = b[o][t][n].resolver
        THEN MapPut(b[c], t, MapPut(b[c][t], n,
                 [b[c][t][n] EXCEPT !.concrete = v]))
        ELSE b[c]]

\* b.concrete = retVal
SetConcrete(b, o, t, n, v) ==
    [b EXCEPT ![o] = MapPut(b[o], t, MapPut(b[o][t], n,
        [b[o][t][n] EXCEPT !.concrete = v]))]

\* reflect.ValueOf(function).Call(arguments): a factory call returns a fresh
\* instance, or, when it is a fallible factory that fails this time, an error;
\* values[0].Interface() of a nil interface result is nil.
CallFactory(w, f, args, fails) ==
    IF f \in fails
    THEN Result([w EXCEPT !.calls = Append(@, Called(f, args, Nil))],
                Discarded, ErrFactory(f))
    ELSE IF f \in NilFuncs
    THEN Result([w EXCEPT !.calls = Append(@, Called(f, args, Nil))],
                Nil, NoError)
    ELSE LET id == Len(w.i) + 1 IN
         Result([w EXCEPT !.i = Append(@, [f |-> f, args |-> args]),
                          !.calls = Append(@, Called(f, args, id))],
                id, NoError)

RECURSIVE Make(_, _, _, _, _, _, _)
RECURSIVE ArgumentsFrom(_, _, _, _, _, _, _, _)

\* Arguments in which a context parameter gets the background context.
RECURSIVE ArgumentsFromBackground(_, _, _, _, _, _, _, _)
ArgumentsFromBackground(w, par, c, ctx, fails, f, i, acc) ==
    IF i > Len(In(f)) THEN Result(w, acc, NoError)
    ELSE LET abstraction == In(f)[i] IN
         IF abstraction = ContextType
         THEN ArgumentsFromBackground(w, par, c, ctx, fails, f, i + 1,
                                      Append(acc, Background))
         ELSE LET r == Make(w, par, c, ctx, fails, abstraction, "") IN
              IF r.err = NoError
              THEN ArgumentsFromBackground(r.w, par, c, ctx, fails, f, i + 1,
                                           Append(acc, r.val))
              ELSE Result(r.w, Nil, ErrResolutionFailed(abstraction, r.err))

\* Arguments resolved from the last parameter to the first.
RECURSIVE ArgumentsFromReversed(_, _, _, _, _, _, _, _)
ArgumentsFromReversed(w, par, c, ctx, fails, f, i, acc) ==
    IF i > Len(In(f)) THEN Result(w, acc, NoError)
    ELSE LET abstraction == In(f)[Len(In(f)) + 1 - i] IN
         IF abstraction = ContextType
         THEN ArgumentsFromReversed(w, par, c, ctx, fails, f, i + 1,
                                    <<ctx>> \o acc)
         ELSE LET r == Make(w, par, c, ctx, fails, abstraction, "") IN
              IF r.err = NoError
              THEN ArgumentsFromReversed(r.w, par, c, ctx, fails, f, i + 1,
                                         <<r.val>> \o acc)
              ELSE Result(r.w, Nil, ErrResolutionFailed(abstraction, r.err))

\* Arguments that take a named binding of a parameter's type when the chain
\* holds no unnamed one.
RECURSIVE ArgumentsFromNamed(_, _, _, _, _, _, _, _)
ArgumentsFromNamed(w, par, c, ctx, fails, f, i, acc) ==
    IF i > Len(In(f)) THEN Result(w, acc, NoError)
    ELSE LET abstraction == In(f)[i] IN
         IF abstraction = ContextType
         THEN ArgumentsFromNamed(w, par, c, ctx, fails, f, i + 1,
                                 Append(acc, ctx))
         ELSE Pick({IF r.err = NoError
                    THEN ArgumentsFromNamed(r.w, par, c, ctx, fails, f, i + 1,
                                            Append(acc, r.val))
                    ELSE Result(r.w, Nil,
                                ErrResolutionFailed(abstraction, r.err)) :
                       r \in {Make(w, par, c, ctx, fails, abstraction,
                                   IF Find(w.b, par, c, abstraction, "") = 0
                                   THEN "main" ELSE "")}})

\* Container.arguments, the loop from parameter i on; acc holds the
\* arguments resolved so far.
ArgumentsFrom(w, par, c, ctx, fails, f, i, acc) ==
    IF i > Len(In(f)) THEN Result(w, acc, NoError)
    ELSE LET abstraction == In(f)[i] IN
         IF abstraction = ContextType
         THEN ArgumentsFrom(w, par, c, ctx, fails, f, i + 1, Append(acc, ctx))
         ELSE Pick({IF r.err = NoError
                    THEN ArgumentsFrom(r.w, par, c, ctx, fails, f, i + 1,
                                       Append(acc, r.val))
                    ELSE Result(r.w, Nil,
                                ErrResolutionFailed(abstraction, r.err)) :
                       r \in {Make(w, par, c, ctx, fails, abstraction, "")}})

\* Container.arguments
Arguments(w, par, c, ctx, fails, f) ==
    ArgumentsFrom(w, par, c, ctx, fails, f, 1, << >>)

\* Container.invoke; reflect.Value.Call faults on an argument that is the
\* zero Value, which is what reflect.ValueOf of a nil instance is.
Invoke(w, par, c, ctx, fails, f) ==
    Pick({IF a.err # NoError THEN Result(a.w, Nil, a.err)
          ELSE IF \E i \in DOMAIN a.val : a.val[i] = Nil
          THEN Result(a.w, Nil, ErrPanic)
          ELSE CallFactory(a.w, f, a.val, fails) :
             a \in {Arguments(w, par, c, ctx, fails, f)}})

\* binding.make caching for the Scoped lifetime only.
BindingMakeScopedOnly(w, par, o, t, n, c, ctx, fails) ==
    LET b == w.b[o][t][n] IN
    IF b.concrete # Nil THEN Result(w, b.concrete, NoError)
    ELSE LET r == Invoke(w, par, c, ctx, fails, b.resolver) IN
         IF b.lifetime = Scoped /\ r.err = NoError
         THEN Result([r.w EXCEPT !.b = SetConcrete(@, o, t, n, r.val)],
                     r.val, r.err)
         ELSE r

\* binding.make caching what the factory returned whether or not it failed.
BindingMakeCacheAlways(w, par, o, t, n, c, ctx, fails) ==
    LET b == w.b[o][t][n] IN
    IF b.concrete # Nil THEN Result(w, b.concrete, NoError)
    ELSE LET r == Invoke(w, par, c, ctx, fails, b.resolver) IN
         IF b.lifetime # Transient
         THEN Result([r.w EXCEPT !.b = SetConcrete(@, o, t, n, r.val)],
                     r.val, r.err)
         ELSE r

\* binding.make caching for the Singleton lifetime only.
BindingMakeSingletonOnly(w, par, o, t, n, c, ctx, fails) ==
    LET b == w.b[o][t][n] IN
    IF b.concrete # Nil THEN Result(w, b.concrete, NoError)
    ELSE LET r == Invoke(w, par, c, ctx, fails, b.resolver) IN
         IF b.lifetime = Singleton /\ r.err = NoError
         THEN Result([r.w EXCEPT !.b = SetConcrete(@, o, t, n, r.val)],
                     r.val, r.err)
         ELSE r

\* binding.make resolving the factory's parameters from the registry that
\* owns the binding instead of the registry the request was made on.
BindingMakeFromOwner(w, par, o, t, n, c, ctx, fails) ==
    LET b == w.b[o][t][n] IN
    IF b.concrete # Nil THEN Result(w, b.concrete, NoError)
    ELSE Pick({IF b.lifetime # Transient /\ r.err = NoError
               THEN Result([r.w EXCEPT !.b = SetConcrete(@, o, t, n, r.val)],
                           r.val, r.err)
               ELSE r :
                  r \in {Invoke(w, par, o, ctx, fails, b.resolver)}})

\* binding.make, on the binding at key (t, n) of registry o, for a request
\* made on registry c.
BindingMake(w, par, o, t, n, c, ctx, fails) ==
    LET b == w.b[o][t][n] IN
    IF b.concrete # Nil THEN Result(w, b.concrete, NoError)
    ELSE Pick({IF b.lifetime # Transient /\ r.err = NoError
               THEN Result([r.w EXCEPT !.b = SetConcrete(@, o, t, n, r.val)],
                           r.val, r.err)
               ELSE r :
                  r \in {Invoke(w, par, c, ctx, fails, b.resolver)}})

\* Container.make.  A key met again while its own factory is being invoked
\* is made exactly as before, the registries being as they were, so the
\* calls nest without end.
Make(w, par, c, ctx, fails, t, n) ==
    LET current == Find(w.b, par, c, t, n) IN
    IF current = 0 THEN Result(w, Nil, ErrBindingNotFound(t))
    ELSE IF <<t, n>> \in w.stack /\ w.b[current][t][n].concrete = Nil
    THEN Result(w, Nil, ErrStackOverflow)
    ELSE Pick({IF r.err # NoError
               THEN Result([r.w EXCEPT !.stack = w.stack], r.val, r.err)
               ELSE Result([r.w EXCEPT !.stack = w.stack,
                                       !.g[c][<<t, n>>] = r.val],
                           r.val, r.err) :
                  r \in {BindingMake([w EXCEPT !.stack = @ \cup {<<t, n>>}],
                                     par, current, t, n, c, ctx, fails)}})

\* ------------------------------------------------------------ registration
\* A validation of the number of results alone.
ValidateResultCount(f) ==
    IF Len(Out(f)) = 0 \/ Len(Out(f)) > 2 THEN ErrInvalidResolver
    ELSE NoError

\* Container.validateResolverFunction
ValidateResolverFunction(f) ==
    LET retCount == Len(Out(f)) IN
    IF retCount = 0 \/ retCount > 2 THEN ErrInvalidResolver
    ELSE IF \E i \in 1..Len(In(f)) : In(f)[i] = Out(f)[1]
         THEN ErrInvalidResolver
         ELSE NoError

\* The type a resolver or an instance is registered under ("" for nil and
\* for a function that returns nothing).
KeyType(resolver) ==
    IF resolver = NoResolver THEN ""
    ELSE IF ~IsFunc(resolver) THEN TypeOf(resolver)
    ELSE IF Len(Out(resolver)) = 0 THEN ""
    ELSE Out(resolver)[1]

\* A bind that starts the map of the names of the type afresh.
BindAllNames(m, resolver, name, lifetime) ==
    IF resolver = NoResolver THEN [m |-> m, err |-> ErrPanic]
    ELSE LET t == KeyType(resolver)
             err == IF IsFunc(resolver) THEN ValidateResolverFunction(resolver)
                    ELSE NoError
         IN IF t = "" \/ err # NoError THEN [m |-> m, err |-> err]
            ELSE [m |-> MapPut(m, t, MapPut(EmptyMap, name,
                            IF IsFunc(resolver)
                            THEN Binding(resolver, Nil, lifetime)
                            ELSE Binding(NoResolver, resolver, lifetime))),
                  err |-> NoError]

\* Container.bind on the registry's own map m; a nil resolver faults in
\* reflectedResolver.Kind().
Bind(m, resolver, name, lifetime) ==
    IF resolver = NoResolver THEN [m |-> m, err |-> ErrPanic]
    ELSE IF IsFunc(resolver)
    THEN LET m1 == IF Len(Out(resolver)) > 0
                      /\ Out(resolver)[1] \notin DOMAIN m
                   THEN MapPut(m, Out(resolver)[1], EmptyMap)
                   ELSE m
             err == ValidateResolverFunction(resolver)
         IN IF err # NoError THEN [m |-> m1, err |-> err]
            ELSE [m |-> MapPut(m1, Out(resolver)[1],
                               MapPut(m1[Out(resolver)[1]], name,
                                      Binding(resolver, Nil, lifetime))),
                  err |-> NoError]
    ELSE LET t == TypeOf(resolver)
             m1 == IF t \notin DOMAIN m THEN MapPut(m, t, EmptyMap) ELSE m
         IN [m |-> MapPut(m1, t, MapPut(m1[t], name,
                                        Binding(NoResolver, resolver, lifetime))),
             err |-> NoError]

\* A registration of an instance that takes whatever it is handed.
RegisterNamedInstanceUnchecked(m, name, instance) ==
    Bind(m, instance, name, Singleton)

\* Container.RegisterNamedInstance; a nil instance faults in t.Kind().
RegisterNamedInstanceOn(m, name, instance) ==
    IF instance = NoResolver THEN [m |-> m, err |-> ErrPanic]
    ELSE IF IsFunc(instance) THEN [m |-> m, err |-> ErrInvalidResolver]
    ELSE Bind(m, instance, name, Singleton)

\* Container.RegisterNamedSingleton, RegisterNamedTransient,
\* RegisterNamedScoped; a nil resolver faults in t.Kind().
RegisterNamedOn(m, name, resolver, lifetime) ==
    IF resolver = NoResolver THEN [m |-> m, err |-> ErrPanic]
    ELSE IF ~IsFunc(resolver) THEN [m |-> m, err |-> ErrInvalidResolver]
    ELSE Bind(m, resolver, name, lifetime)

\* Container.Register
RegisterOn(m, resolver, name, lifetime) ==
    Bind(m, resolver, name, IF lifetime = "" THEN Singleton ELSE lifetime)

\* What a resolution of key k through d returned is forgotten once registry
\* c, whose binding d uses for k before (b) or after (b2) the change,
\* replaces or drops that binding.
Forget(g, par, b, b2, c, keys) ==
    [d \in DOMAIN g |->
        [k \in Keys |->
            IF /\ k \in keys
               /\ \/ Find(b, par, d, k[1], k[2]) = c
                  \/ Find(b2, par, d, k[1], k[2]) = c
            THEN Nil
            ELSE g[d][k]]]

\* A resolution request, the error it returned, and whether the missing
\* dependency has been registered since.
Request(c, t, n, err, fixed) ==
    [c |-> c, t |-> t, n |-> n, err |-> err, fixed |-> fixed]
NoRequest == Request(0, "", "", NoError, FALSE)

\* What an operation on registry c was asked (op, t, n, ctx) and what it
\* returned (val, err; for a registration, a call and a fill val is the
\* resolver, the receiver and the structure it was handed), with the
\* factory calls it made, in order; what got[c][<<t, n>>] was when it
\* started; the failed request it follows; what a fill left in the fields;
\* and the factories that were to fail during a validation.
Outcome(op, c, t, n, ctx, val, err, calls, before, retry) ==
    [op |-> op, c |-> c, t |-> t, n |-> n, ctx |-> ctx, val |-> val,
     err |-> err, calls |-> calls, before |-> before, retry |-> retry,
     filled |-> << >>, fails |-> {}, target |-> Nil]

\* The type a failed resolution found no binding for ("" if none).
Missing(err) ==
    IF err # NoError /\ err[Len(err)].k = "BindingNotFound"
    THEN err[Len(err)].t ELSE ""

\* The failed request a registration of (t, n) on registry c answers: the
\* operation before it was a resolution that found no binding for its
\* dependency t.
Answers(c, t, n) ==
    IF /\ last.op = "ResolveNamed"
       /\ Missing(last.err) = t
       /\ Len(last.err) > 2
       /\ n = ""
       /\ c \in ChainSet(parent, last.c)
    THEN Request(last.c, last.t, last.n, last.err, TRUE)
    ELSE NoRequest

\* The failed request a resolution of (t, n) through c repeats: the same
\* request failed just before it, or just before the registration before it.
Repeats(c, t, n) ==
    IF /\ last.op = "ResolveNamed" /\ last.err # NoError
       /\ last.c = c /\ last.t = t /\ last.n = n
    THEN Request(c, t, n, last.err, FALSE)
    ELSE IF /\ last.op # "ResolveNamed" /\ last.err = NoError
            /\ last.retry.c = c /\ last.retry.t = t /\ last.retry.n = n
    THEN last.retry
    ELSE NoRequest

\* The effect of a registration call that returned r = [m, err] on registry c.
Registered(op, c, name, resolver, r) ==
    /\ r.err = NoError => changes < MaxChanges
    /\ bindings' = [bindings EXCEPT ![c] = r.m]
    /\ changes' = IF r.err = NoError THEN changes + 1 ELSE changes
    /\ got' = IF r.err = NoError
              THEN Forget(got, parent, bindings, bindings', c,
                          {<<KeyType(resolver), name>>})
              ELSE got
    /\ last' = Outcome(op, c, KeyType(resolver), name, NilCtx, resolver,
                       r.err, << >>, Nil,
                       Answers(c, KeyType(resolver), name))
    /\ UNCHANGED <<threads, parent, instances>>

\* RegisterInstance(instance) is RegisterNamedInstance("", instance).
RegisterNamedInstance(c, name, instance) ==
    Registered("RegisterNamedInstance", c, name, instance,
               RegisterNamedInstanceOn(bindings[c], name, instance))

\* RegisterSingleton(resolver) is RegisterNamedSingleton("", resolver).
RegisterNamedSingleton(c, name, resolver) ==
    Registered("RegisterNamedSingleton", c, name, resolver,
               RegisterNamedOn(bindings[c], name, resolver, Singleton))

\* RegisterTransient(resolver) is RegisterNamedTransient("", resolver).
RegisterNamedTransient(c, name, resolver) ==
    Registered("RegisterNamedTransient", c, name, resolver,
               RegisterNamedOn(bindings[c], name, resolver, Transient))

\* RegisterScoped(resolver) is RegisterNamedScoped("", resolver).
RegisterNamedScoped(c, name, resolver) ==
    Registered("RegisterNamedScoped", c, name, resolver,
               RegisterNamedOn(bindings[c], name, resolver, Scoped))

\* Container.Register
Register(c, resolver, name, lifetime) ==
    Registered("Register", c, name, resolver,
               RegisterOn(bindings[c], resolver, name, lifetime))

\* A reset that empties the own map of every registry of the tree.
ResetAll(c) ==
    /\ changes < MaxChanges
    /\ changes' = changes + 1
    /\ bindings' = [d \in Containers |-> EmptyMap]
    /\ got' = [d \in Containers |-> [k \in Keys |-> Nil]]
    /\ last' = Outcome("Reset", c, "", "", NilCtx, Nil, NoError, << >>, Nil,
                       NoRequest)
    /\ UNCHANGED <<threads, parent, instances>>

\* Container.Reset
Reset(c) ==
    /\ changes < MaxChanges
    /\ changes' = changes + 1
    /\ bindings' = [bindings EXCEPT ![c] = EmptyMap]
    /\ got' = Forget(got, parent, bindings, bindings', c, Keys)
    /\ last' = Outcome("Reset", c, "", "", NilCtx, Nil, NoError, << >>, Nil,
                       NoRequest)
    /\ UNCHANGED <<threads, parent, instances>>

\* ------------------------------------------------------------------ scopes
\* The Scoped bindings of a registry's own map, as (type, name) pairs.
ScopedKeys(m) ==
    {k \in Keys : /\ k[1] \in DOMAIN m
                  /\ k[2] \in DOMAIN m[k[1]]
                  /\ m[k[1]][k[2]].lifetime = Scoped}

\* A copy that takes the parent's cached instance along with the factory.
RECURSIVE CopyScopedWithCache(_, _, _)
CopyScopedWithCache(pm, todo, child) ==
    IF todo = {} THEN [m |-> child, err |-> NoError]
    ELSE LET k == CHOOSE x \in todo : TRUE
             b == pm[k[1]][k[2]]
             r == Bind(child, b.resolver, k[2], b.lifetime)
         IN IF r.err # NoError THEN r
            ELSE CopyScopedWithCache(pm, todo \ {k},
                     [r.m EXCEPT ![k[1]][k[2]].concrete = b.concrete])

\* The loop of Container.NewScope over the bindings still to visit: each
\* Scoped binding of the parent is bound again in the child, first failure
\* returned.  (The bound keys are distinct, so the order of the visit does
\* not change the child's map.)
RECURSIVE CopyScoped(_, _, _)
CopyScoped(pm, todo, child) ==
    IF todo = {} THEN [m |-> child, err |-> NoError]
    ELSE LET k == CHOOSE x \in todo : TRUE
             b == pm[k[1]][k[2]]
             r == Bind(child, b.resolver, k[2], b.lifetime)
         IN IF r.err # NoError THEN r
            ELSE CopyScoped(pm, todo \ {k}, r.m)

\* Container.NewScope
NewScope(c) ==
    LET r == CopyScoped(bindings[c], ScopedKeys(bindings[c]), EmptyMap) IN
    IF r.err # NoError
    THEN /\ last' = Outcome("NewScope", c, "", "", NilCtx, Nil, r.err, << >>,
                            Nil, NoRequest)
         /\ UNCHANGED <<threads, parent, bindings, instances, got, changes>>
    ELSE /\ Len(parent) < MaxContainers
         /\ parent' = Append(parent, c)
         /\ bindings' = Append(bindings, r.m)
         /\ got' = Append(got, [k \in Keys |-> Nil])
         /\ last' = Outcome("NewScope", c, "", "", NilCtx, Len(parent) + 1,
                            NoError, << >>, Nil, NoRequest)
         /\ UNCHANGED <<threads, instances, changes>>

\* -------------------------------------------------------------- resolution
\* What a caller can pass as the abstraction: nothing, a value that is not
\* a pointer, or a pointer to a variable of one of the types.
NilAbstraction == "<nil>"
NotAPointer == "<value>"
Abstractions == Types \cup {NilAbstraction, NotAPointer}

\* A ResolveNamed without the check of the context.
ResolveNamedAnyContext(w, par, c, ctx, name, abstraction, fails) ==
    IF abstraction \in {NilAbstraction, NotAPointer}
    THEN Result(w, Nil, ErrInvalidAbstraction)
    ELSE LET r == Make(w, par, c, ctx, fails, abstraction, name) IN
         IF r.err = NoError THEN r
         ELSE Result(r.w, Nil, ErrResolutionFailed(abstraction, r.err))

\* Container.ResolveNamed; val is what the pointed-to variable holds after
\* the call (it starts out nil).  Value.Set faults on the zero Value that
\* reflect.ValueOf gives for a nil instance.
ResolveNamedOn(w, par, c, ctx, name, abstraction, fails) ==
    IF ctx = NilCtx THEN Result(w, Nil, ErrContextRequired)
    ELSE IF abstraction \in {NilAbstraction, NotAPointer}
    THEN Result(w, Nil, ErrInvalidAbstraction)
    ELSE Pick({IF r.err = NoError
               THEN IF r.val = Nil THEN Result(r.w, Nil, ErrPanic) ELSE r
               ELSE Result(r.w, Nil,
                           ErrResolutionFailed(abstraction, r.err)) :
                  r \in {Make(w, par, c, ctx, fails, abstraction, name)}})

\* Resolve(ctx, abstraction) is ResolveNamed(ctx, "", abstraction).
ResolveNamed(c, ctx, name, abstraction, fails) ==
    \E r \in {ResolveNamedOn(World(bindings, instances, got), parent, c, ctx,
                           name, abstraction, fails)} :
    /\ Len(r.w.i) <= MaxInstances
    /\ bindings' = r.w.b
    /\ instances' = r.w.i
    /\ got' = r.w.g
    /\ last' = Outcome("ResolveNamed", c, abstraction, name, ctx, r.val,
                       r.err, r.w.calls,
                       IF <<abstraction, name>> \in Keys
                       THEN got[c][<<abstraction, name>>] ELSE Nil,
                       Repeats(c, abstraction, name))
    /\ UNCHANGED <<threads, parent, changes>>

\* A ResolveNamed that stores what make returned whether or not it failed.
ResolveNamedStoreAlways(w, par, c, ctx, name, abstraction, fails, target) ==
    IF ctx = NilCtx THEN Result(w, target, ErrContextRequired)
    ELSE IF abstraction \in {NilAbstraction, NotAPointer}
    THEN Result(w, target, ErrInvalidAbstraction)
    ELSE LET r == Make(w, par, c, ctx, fails, abstraction, name) IN
         IF r.err = NoError
         THEN IF r.val = Nil THEN Result(r.w, target, ErrPanic) ELSE r
         ELSE Result(r.w, r.val, ErrResolutionFailed(abstraction, r.err))

\* Container.ResolveNamed with a pointer to a variable that holds target
\* when the call is made; val is what the variable holds after the call.
\* Only the branch in which make returned no error reaches Value.Set.
ResolveNamedInto(w, par, c, ctx, name, abstraction, fails, target) ==
    IF ctx = NilCtx THEN Result(w, target, ErrContextRequired)
    ELSE IF abstraction \in {NilAbstraction, NotAPointer}
    THEN Result(w, target, ErrInvalidAbstraction)
    ELSE Pick({IF r.err = NoError
               THEN IF r.val = Nil THEN Result(r.w, target, ErrPanic) ELSE r
               ELSE Result(r.w, target,
                           ErrResolutionFailed(abstraction, r.err)) :
                  r \in {Make(w, par, c, ctx, fails, abstraction, name)}})

\* A ResolveNamed into a variable that holds nothing or an instance
\* resolved before.
ResolveInto(c, ctx, name, abstraction, fails, target) ==
    \E r \in {ResolveNamedInto(World(bindings, instances, got), parent, c,
                             ctx, name, abstraction, fails, target)} :
    /\ Len(r.w.i) <= MaxInstances
    /\ bindings' = r.w.b
    /\ instances' = r.w.i
    /\ got' = r.w.g
    /\ last' = [Outcome("ResolveNamed", c, abstraction, name, ctx, r.val,
                        r.err, r.w.calls,
                        IF <<abstraction, name>> \in Keys
                        THEN got[c][<<abstraction, name>>] ELSE Nil,
                        Repeats(c, abstraction, name))
                    EXCEPT !.target = target]
    /\ UNCHANGED <<threads, parent, changes>>

\* ------------------------------------------------------ call, fill, validate
\* The types reflect.Value.IsNil accepts: pointers and interfaces here; on
\* any other it faults.
Nilable(type) == type \in {"error", "Options", "Database", ContextType}

\* Whether the one result of a receiver is nil: an error is nil unless the
\* receiver fails this time, NoOptions returns a nil pointer, every other
\* function a value.
ReturnsNil(function, fails) ==
    IF Out(function)[1] = "error" THEN function \notin fails
    ELSE function = NoOptions

\* A Call that looks at the results the receiver declares before it calls
\* it, and does not call a receiver of a shape it refuses.
CallOnShapeFirst(w, par, c, ctx, function, fails) ==
    IF ctx = NilCtx THEN Result(w, Nil, ErrContextRequired)
    ELSE IF ~IsFunc(function) THEN Result(w, Nil, ErrInvalidReceiver)
    ELSE Pick({
         IF a.err # NoError THEN Result(a.w, Nil, a.err)
         ELSE IF \E i \in DOMAIN a.val : a.val[i] = Nil
         THEN Result(a.w, Nil, ErrPanic)
         ELSE IF Len(Out(function)) > 1
         THEN Result(a.w, Nil, ErrInvalidReceiver)
         ELSE LET called == [a.w EXCEPT !.calls =
                                Append(@, Called(function, a.val, Nil))]
              IN IF Len(Out(function)) = 0 THEN Result(called, Nil, NoError)
                 ELSE IF ~Nilable(Out(function)[1])
                 THEN Result(called, Nil, ErrPanic)
                 ELSE IF ReturnsNil(function, fails)
                 THEN Result(called, Nil, NoError)
                 ELSE IF Out(function)[1] = "error"
                 THEN Result(called, Nil, ErrReceiver)
                 ELSE Result(called, Nil, ErrInvalidReceiver) :
             a \in {Arguments(w, par, c, ctx, fails, function)}})

\* Container.Call: the receiver's parameters are resolved, the receiver is
\* called, and its only result, if it has one, is the error returned.
CallOn(w, par, c, ctx, function, fails) ==
    IF ctx = NilCtx THEN Result(w, Nil, ErrContextRequired)
    ELSE IF ~IsFunc(function) THEN Result(w, Nil, ErrInvalidReceiver)
    ELSE Pick({
         IF a.err # NoError THEN Result(a.w, Nil, a.err)
         ELSE IF \E i \in DOMAIN a.val : a.val[i] = Nil
         THEN Result(a.w, Nil, ErrPanic)
         ELSE LET called == [a.w EXCEPT !.calls =
                                Append(@, Called(function, a.val, Nil))]
              IN IF Len(Out(function)) = 0 THEN Result(called, Nil, NoError)
                 ELSE IF Len(Out(function)) # 1
                 THEN Result(called, Nil, ErrInvalidReceiver)
                 ELSE IF ~Nilable(Out(function)[1])
                 THEN Result(called, Nil, ErrPanic)
                 ELSE IF ReturnsNil(function, fails)
                 THEN Result(called, Nil, NoError)
                 ELSE IF Out(function)[1] = "error"
                 THEN Result(called, Nil, ErrReceiver)
                 ELSE Result(called, Nil, ErrInvalidReceiver) :
             a \in {Arguments(w, par, c, ctx, fails, function)}})

Call(c, ctx, function, fails) ==
    \E r \in {CallOn(World(bindings, instances, got), parent, c, ctx,
                   function, fails)} :
    /\ Len(r.w.i) <= MaxInstances
    /\ bindings' = r.w.b
    /\ instances' = r.w.i
    /\ got' = r.w.g
    /\ last' = Outcome("Call", c, "", "", ctx, function, r.err, r.w.calls,
                       Nil, NoRequest)
    /\ UNCHANGED <<threads, parent, changes>>

\* A fill that resolves every annotated field under the empty name.
RECURSIVE FillFromUnnamed(_, _, _, _, _, _, _, _)
FillFromUnnamed(w, par, c, ctx, fails, structure, i, filled) ==
    IF i > Len(Fields(structure)) THEN Result(w, filled, NoError)
    ELSE LET f == Fields(structure)[i] IN
         IF f.tag = ""
         THEN FillFromUnnamed(w, par, c, ctx, fails, structure, i + 1, filled)
         ELSE IF f.tag \notin {"type", "name"}
         THEN Result(w, filled, ErrInvalidStructure)
         ELSE LET r == Make(w, par, c, ctx, fails, f.type, "") IN
              IF r.err = NoError
              THEN FillFromUnnamed(r.w, par, c, ctx, fails, structure, i + 1,
                                   [filled EXCEPT ![i] = r.val])
              ELSE Result(r.w, filled, ErrResolutionFailed(f.name, r.err))

\* A fill that goes on after a field that cannot be resolved and returns
\* the first error at the end.
RECURSIVE FillFromAll(_, _, _, _, _, _, _, _)
FillFromAll(w, par, c, ctx, fails, structure, i, filled) ==
    IF i > Len(Fields(structure)) THEN Result(w, filled, NoError)
    ELSE LET f == Fields(structure)[i] IN
         IF f.tag = ""
         THEN FillFromAll(w, par, c, ctx, fails, structure, i + 1, filled)
         ELSE IF f.tag \notin {"type", "name"}
         THEN Result(w, filled, ErrInvalidStructure)
         ELSE LET r == Make(w, par, c, ctx, fails, f.type,
                            IF f.tag = "type" THEN "" ELSE f.name) IN
              IF r.err = NoError
              THEN FillFromAll(r.w, par, c, ctx, fails, structure, i + 1,
                               [filled EXCEPT ![i] = r.val])
              ELSE LET rest == FillFromAll(r.w, par, c, ctx, fails,
                                           structure, i + 1, filled)
                   IN Result(rest.w, rest.val,
                             ErrResolutionFailed(f.name, r.err))

\* The loop of Container.Fill from field i on; filled holds what the fields
\* of the structure hold so far.
RECURSIVE FillFrom(_, _, _, _, _, _, _, _)
FillFrom(w, par, c, ctx, fails, structure, i, filled) ==
    IF i > Len(Fields(structure)) THEN Result(w, filled, NoError)
    ELSE LET f == Fields(structure)[i] IN
         IF f.tag = ""
         THEN FillFrom(w, par, c, ctx, fails, structure, i + 1, filled)
         ELSE IF f.tag \notin {"type", "name"}
         THEN Result(w, filled, ErrInvalidStructure)
         ELSE Pick({IF r.err = NoError
                    THEN IF r.val = Nil THEN Result(r.w, filled, ErrPanic)
                         ELSE FillFrom(r.w, par, c, ctx, fails, structure,
                                       i + 1, [filled EXCEPT ![i] = r.val])
                    ELSE Result(r.w, filled,
                                ErrResolutionFailed(f.name, r.err)) :
                       r \in {Make(w, par, c, ctx, fails, f.type,
                                   IF f.tag = "type" THEN ""
                                   ELSE f.name)}})

\* The fields of a structure before a fill: all nil (none if it is no
\* structure).
Untouched(structure) ==
    IF structure \in Structures \cup MoreStructures
    THEN [i \in DOMAIN Fields(structure) |-> Nil]
    ELSE << >>

\* Container.Fill; val is what the fields of the structure hold after the
\* call.
FillOn(w, par, c, ctx, structure, fails) ==
    IF ctx = NilCtx THEN Result(w, Untouched(structure), ErrContextRequired)
    ELSE IF structure \notin Structures \cup MoreStructures
    THEN Result(w, Untouched(structure), ErrInvalidStructure)
    ELSE FillFrom(w, par, c, ctx, fails, structure, 1, Untouched(structure))

Fill(c, ctx, structure, fails) ==
    \E r \in {FillOn(World(bindings, instances, got), parent, c, ctx,
                   structure, fails)} :
    /\ Len(r.w.i) <= MaxInstances
    /\ bindings' = r.w.b
    /\ instances' = r.w.i
    /\ got' = r.w.g
    /\ last' = [Outcome("Fill", c, "", "", ctx, structure, r.err, r.w.calls,
                        Nil, NoRequest) EXCEPT !.filled = r.val]
    /\ UNCHANGED <<threads, parent, changes>>

\* The keys of a registry's own map, and the orders in which a range over
\* the map can visit them.
OwnKeys(m) == UNION {{<<t, n>> : n \in DOMAIN m[t]} : t \in DOMAIN m}
Orders(S) ==
    {o \in [1..Cardinality(S) -> S] :
        \A i, j \in 1..Cardinality(S) : i # j => o[i] # o[j]}

\* A validation that makes the first key of the visit and no other.
RECURSIVE ValidateFirst(_, _, _, _, _, _, _)
ValidateFirst(w, par, c, ctx, fails, order, i) ==
    IF i > Len(order) THEN Result(w, Nil, NoError)
    ELSE LET r == Make(w, par, c, ctx, fails, order[i][1], order[i][2]) IN
         IF r.err # NoError THEN Result(r.w, Nil, r.err)
         ELSE Result(r.w, Nil, NoError)

\* The loop of Container.Validate from the i-th key of the visit on.
RECURSIVE ValidateFrom(_, _, _, _, _, _, _)
ValidateFrom(w, par, c, ctx, fails, order, i) ==
    IF i > Len(order) THEN Result(w, Nil, NoError)
    ELSE Pick({IF r.err # NoError THEN Result(r.w, Nil, r.err)
               ELSE ValidateFrom(r.w, par, c, ctx, fails, order, i + 1) :
                  r \in {Make(w, par, c, ctx, fails, order[i][1],
                              order[i][2])}})

\* Container.Validate, visiting the registry's own bindings in some order.
ValidateOn(w, par, c, ctx, fails, order) ==
    IF ctx = NilCtx THEN Result(w, Nil, ErrContextRequired)
    ELSE ValidateFrom(w, par, c, ctx, fails, order, 1)

Validate(c, ctx, fails) ==
    \E order \in Orders(OwnKeys(bindings[c])) :
        \E r \in {ValidateOn(World(bindings, instances, got), parent, c, ctx,
                           fails, order)} :
        /\ Len(r.w.i) <= MaxInstances
        /\ bindings' = r.w.b
        /\ instances' = r.w.i
        /\ got' = r.w.g
        /\ last' = [Outcome("Validate", c, "", "", ctx, Nil, r.err,
                            r.w.calls, Nil, NoRequest)
                        EXCEPT !.fails = fails]
        /\ UNCHANGED <<threads, parent, changes>>

\* ----------------------------------------------------------- specification
\* container.New()
\* ------------------------------------------------- concurrent resolution
\* The code holds no lock and uses no atomic operation: a call of
\* ResolveNamed by one thread interleaves with the calls of the others at
\* the read of b.concrete, the invocation of the resolver and the write of
\* b.concrete.  Registration is done by one owner while no call is running.
Running(th, pc, c, t, o, seen, val, err, stored) ==
    [threads EXCEPT ![th] = [pc |-> pc, c |-> c, t |-> t, o |-> o,
                             seen |-> seen, val |-> val, err |-> err,
                             stored |-> stored]]

\* The writes of b.concrete, for the binding of type t on registry o, by
\* threads other than th whose calls have not been joined: nothing orders
\* them before a read by th.
Unordered(th, o, t) ==
    {x \in Threads \ {th} : /\ threads[x].pc = "done"
                            /\ threads[x].stored
                            /\ threads[x].o = o
                            /\ threads[x].t = t}

\* What the read 'b.concrete != nil' by thread th can observe: the value in
\* the slot, or, the read racing with unordered writes, the value before
\* them or the value of any of them.
Visible(th, o, t) ==
    {bindings[o][t][""].concrete}
        \cup {threads[x].val : x \in Unordered(th, o, t)}
        \cup (IF Unordered(th, o, t) = {} THEN {} ELSE {Nil})

\* A store that keeps and returns an instance another caller has stored in
\* the meantime.
BindingStoreOnce(b, o, t, n, retVal, err) ==
    IF b[o][t][n].lifetime # Transient /\ err = NoError
    THEN IF b[o][t][n].concrete # Nil
         THEN [b |-> b, val |-> b[o][t][n].concrete, stored |-> FALSE]
         ELSE [b |-> SetConcrete(b, o, t, n, retVal), val |-> retVal,
               stored |-> TRUE]
    ELSE [b |-> b, val |-> retVal, stored |-> FALSE]

\* binding.make after the resolver has returned:
\*   if b.lifetime != Transient && err == nil { b.concrete = retVal }
\*   return retVal, err
BindingStore(b, o, t, n, retVal, err) ==
    IF b[o][t][n].lifetime # Transient /\ err = NoError
    THEN [b |-> SetConcrete(b, o, t, n, retVal), val |-> retVal,
          stored |-> TRUE]
    ELSE [b |-> b, val |-> retVal, stored |-> FALSE]

\* Thread th calls ResolveNamed(ctx, "", &t) on registry c: Container.make
\* finds the nearest binding and binding.make reads its cache.
MakeBegin(th, c, t) ==
    /\ threads[th].pc = "idle"
    /\ \E current \in {Find(bindings, parent, c, t, "")} :
         IF current = 0
         THEN /\ threads' = Running(th, "done", c, t, 0, Nil, Nil,
                   ErrResolutionFailed(t, ErrBindingNotFound(t)), FALSE)
              /\ UNCHANGED got
         ELSE \E seen \in Visible(th, current, t) :
                  IF seen # Nil
                  THEN /\ threads' = Running(th, "done", c, t, current, seen,
                                             seen, NoError, FALSE)
                       /\ got' = [got EXCEPT ![c][<<t, "">>] = seen]
                  ELSE /\ threads' = Running(th, "invoke", c, t, current,
                                             Nil, Nil, NoError, FALSE)
                       /\ UNCHANGED got
    /\ UNCHANGED <<parent, bindings, instances, changes, last>>

\* Thread th, having found the cache empty, runs c.invoke(ctx, b.resolver).
MakeInvoke(th, fails) ==
    /\ threads[th].pc = "invoke"
    /\ \E r \in {Invoke(World(bindings, instances, got), parent,
                         threads[th].c, Background, fails,
                         bindings[threads[th].o][threads[th].t][""].resolver)} :
         /\ Len(r.w.i) <= MaxInstances
         /\ bindings' = r.w.b
         /\ instances' = r.w.i
         /\ got' = r.w.g
         /\ threads' = Running(th, "store", threads[th].c, threads[th].t,
                               threads[th].o, Nil, r.val, r.err, FALSE)
    /\ UNCHANGED <<parent, changes, last>>

\* Thread th stores what the resolver returned, as the lifetime has it, and
\* its call of ResolveNamed returns.
MakeStore(th) ==
    /\ threads[th].pc = "store"
    /\ \E x \in {BindingStore(bindings, threads[th].o, threads[th].t, "",
                               threads[th].val, threads[th].err)} :
         /\ bindings' = x.b
         /\ IF threads[th].err = NoError
            THEN /\ got' = [got EXCEPT ![threads[th].c][<<threads[th].t, "">>]
                                           = x.val]
                 /\ threads' = Running(th, "done", threads[th].c,
                                       threads[th].t, threads[th].o, Nil,
                                       x.val, NoError, x.stored)
            ELSE /\ UNCHANGED got
                 /\ threads' = Running(th, "done", threads[th].c,
                                       threads[th].t, threads[th].o, Nil, Nil,
                                       ErrResolutionFailed(threads[th].t,
                                                           threads[th].err),
                                       FALSE)
    /\ UNCHANGED <<parent, instances, changes, last>>

\* The owner waits for the calls that have returned; what they wrote is
\* ordered before everything that follows.
Join ==
    /\ \A th \in Threads : threads[th].pc \in {"idle", "done"}
    /\ \E th \in Threads : threads[th].pc = "done"
    /\ threads' = [th \in Threads |-> Idle]
    /\ UNCHANGED <<parent, bindings, instances, got, changes, last>>

\* No call of ResolveNamed is under way.
Quiet == \A th \in Threads : threads[th].pc = "idle"

Init ==
    /\ parent = <<NoParent>>
    /\ bindings = <<EmptyMap>>
    /\ instances = << >>
    /\ got = <<[k \in Keys |-> Nil]>>
    /\ changes = 0
    /\ last = Outcome("New", Root, "", "", NilCtx, Nil, NoError, << >>, Nil,
                   NoRequest)
    /\ threads = [th \in Threads |-> Idle]

\* The registrations of factories on registry c under name n.
RegisterFactory(c, n) ==
    \/ \E f \in Funcs : RegisterNamedSingleton(c, n, f)
    \/ \E f \in Funcs : RegisterNamedTransient(c, n, f)
    \/ \E f \in Funcs : RegisterNamedScoped(c, n, f)

\* The registrations of precomputed instances on registry c under name n.
RegisterValue(c, n) ==
    \/ \E v \in Values : RegisterNamedInstance(c, n, v)
    \/ \E v \in Values, l \in Lifetimes \cup {""} : Register(c, v, n, l)

\* A resolution through registry c with a context and a pointer.
ResolveAny(c, names) ==
    \E n \in names, t \in Types, fails \in SUBSET Fallible :
        ResolveNamed(c, Background, n, t, fails)

\* A resolution through registry c in which no factory fails.
ResolveWell(c, names) ==
    \E n \in names, t \in Types : ResolveNamed(c, Background, n, t, {})

\* The scope tree: factories are registered on the root without a name, any
\* registry is reset, opens a scope and resolves.
Next ==
    \/ RegisterFactory(Root, "")
    \/ \E c \in Containers : Reset(c)
    \/ \E c \in Containers : NewScope(c)
    \/ \E c \in Containers : ResolveAny(c, {""})

Spec == Init /\ [][Next]_vars

\* Registrations on any registry: factories and precomputed instances.
NextLocal ==
    \/ \E c \in Containers : RegisterFactory(c, "")
    \/ \E c \in Containers : RegisterValue(c, "")
    \/ \E c \in Containers : Reset(c)
    \/ \E c \in Containers : NewScope(c)
    \/ \E c \in Containers : ResolveAny(c, {""})

SpecLocal == Init /\ [][NextLocal]_vars

\* A call, a fill and a validation through registry c with a context.
CallAny(c) ==
    \E function \in Receivers, fails \in SUBSET (Fallible \cup Receivers) :
        Call(c, Background, function, fails)
FillAny(c) ==
    \E structure \in Structures, fails \in SUBSET Fallible :
        Fill(c, Background, structure, fails)
ValidateAny(c) ==
    \E fails \in SUBSET Fallible : Validate(c, Background, fails)

\* All the operations that resolve, on a scope tree whose root holds the
\* factories.
NextResolving ==
    \/ RegisterFactory(Root, "")
    \/ \E c \in Containers : NewScope(c)
    \/ \E c \in Containers : ResolveAny(c, {""})
    \/ \E c \in Containers : CallAny(c)
    \/ \E c \in Containers : FillAny(c)
    \/ \E c \in Containers : ValidateAny(c)

SpecResolving == Init /\ [][NextResolving]_vars

\* All the operations that resolve, with Singleton factories registered on
\* any registry of a root and the scopes opened from it.
NextAnywhere ==
    \/ \E c \in Containers, f \in Funcs : RegisterNamedSingleton(c, "", f)
    \/ NewScope(Root)
    \/ \E c \in Containers : ResolveAny(c, {""})
    \/ \E c \in Containers : CallAny(c)
    \/ \E c \in Containers : FillAny(c)
    \/ \E c \in Containers : ValidateAny(c)

SpecAnywhere == Init /\ [][NextAnywhere]_vars

\* Validations of registries that hold Singleton factories under both
\* names, two of which can fail, with resolutions in between.
NextValidate ==
    \/ \E c \in Containers, n \in Names, f \in Funcs \cup LoaderFuncs :
          RegisterNamedSingleton(c, n, f)
    \/ NewScope(Root)
    \/ \E c \in Containers : ResolveWell(c, Names)
    \/ \E c \in Containers, fails \in SUBSET (Fallible \cup LoaderFuncs) :
          Validate(c, Background, fails)

SpecValidate == Init /\ [][NextValidate]_vars

\* The factories with a context parameter that can fail.
FallibleWithContext ==
    {f \in ContextFuncs : Len(Out(f)) = 2 /\ Out(f)[2] = "error"}

\* The operations that resolve, through registry c, with any context or
\* none.
ResolveWith(c) ==
    \E ctx \in Contexts, t \in Types \cup {ContextType},
       fails \in SUBSET FallibleWithContext :
        ResolveNamed(c, ctx, "", t, fails)
CallWith(c) ==
    \E ctx \in Contexts, function \in ContextReceivers,
       fails \in SUBSET FallibleWithContext :
        Call(c, ctx, function, fails)
FillWith(c) ==
    \E ctx \in Contexts, structure \in Structures,
       fails \in SUBSET FallibleWithContext :
        Fill(c, ctx, structure, fails)
ValidateWith(c) ==
    \E ctx \in Contexts, fails \in SUBSET FallibleWithContext :
        Validate(c, ctx, fails)

\* A single registry with factories that take the context, and one that
\* returns a context; every operation that resolves, with two contexts and
\* with none.
NextContext ==
    \/ \E f \in ContextFuncs : RegisterNamedSingleton(Root, "", f)
    \/ \E f \in ContextFuncs : RegisterNamedTransient(Root, "", f)
    \/ \E c \in Containers : ResolveWith(c)
    \/ \E c \in Containers : CallWith(c)
    \/ \E c \in Containers : FillWith(c)
    \/ \E c \in Containers : ValidateWith(c)

SpecContext == Init /\ [][NextContext]_vars

\* What Call is handed as the receiver: functions of every result shape, a
\* value that is no function, and nil.
AnyReceiver ==
    Receivers \cup OddReceivers \cup Values
        \cup {NewOptions, ReturnsNothing, ReturnsTwo, NoResolver}

\* Calls of receivers of every shape through a root and its scopes, whose
\* root holds Singleton factories.
NextCall ==
    \/ \E f \in Funcs : RegisterNamedSingleton(Root, "", f)
    \/ NewScope(Root)
    \/ \E c \in Containers, function \in AnyReceiver,
          fails \in SUBSET Receivers :
          Call(c, Background, function, fails)

SpecCall == Init /\ [][NextCall]_vars

\* Fills of structures with fields of every mode through a root and its
\* scopes, whose root holds factories under both names.
NextFill ==
    \/ \E n \in Names, f \in Funcs : RegisterNamedSingleton(Root, n, f)
    \/ \E n \in Names, f \in Funcs : RegisterNamedTransient(Root, n, f)
    \/ NewScope(Root)
    \/ \E c \in Containers, structure \in Structures \cup MoreStructures,
          fails \in SUBSET Fallible :
          Fill(c, Background, structure, fails)

SpecFill == Init /\ [][NextFill]_vars

\* Factories that need one another, on the root and resolved through the
\* root and its scopes by each of the four operations.
NextCycle ==
    \/ \E f \in Funcs \cup CycleFuncs : RegisterNamedSingleton(Root, "", f)
    \/ \E f \in Funcs \cup CycleFuncs : RegisterNamedTransient(Root, "", f)
    \/ NewScope(Root)
    \/ \E c \in Containers : ResolveWell(c, {""})
    \/ \E c \in Containers, function \in Receivers,
          fails \in SUBSET Fallible :
          Call(c, Background, function, fails)
    \/ \E c \in Containers, fails \in SUBSET Fallible :
          Fill(c, Background, Service, fails)
    \/ \E c \in Containers, fails \in SUBSET Fallible :
          Validate(c, Background, fails)
SpecCycle == Init /\ [][NextCycle]_vars

\* Cached factories, one of them returning nil, registered on the root and
\* resolved and validated again and again through the root and its scopes.
NextCache ==
    \/ \E f \in Funcs \cup NilFuncs : RegisterNamedSingleton(Root, "", f)
    \/ \E f \in Funcs \cup NilFuncs : RegisterNamedScoped(Root, "", f)
    \/ NewScope(Root)
    \/ \E c \in Containers : ResolveWell(c, {""})
    \/ \E c \in Containers, fails \in SUBSET Fallible :
          Validate(c, Background, fails)
SpecCache == Init /\ [][NextCache]_vars

\* Calls of receivers with two parameters, one of which depends on the
\* other, with cached and uncached factories on the root.
NextOrder ==
    \/ \E f \in Funcs : RegisterNamedSingleton(Root, "", f)
    \/ \E f \in Funcs : RegisterNamedTransient(Root, "", f)
    \/ NewScope(Root)
    \/ \E c \in Containers : ResolveWell(c, {""})
    \/ \E c \in Containers, function \in PairReceivers,
          fails \in SUBSET Fallible :
          Call(c, Background, function, fails)
SpecOrder == Init /\ [][NextOrder]_vars

\* Resolutions into variables that hold an instance already, with and
\* without a context, through good and malformed pointers, of bound and
\* unbound keys and with factories that fail.
NextTarget ==
    \/ \E f \in Funcs : RegisterNamedSingleton(Root, "", f)
    \/ NewScope(Root)
    \/ \E c \in Containers, ctx \in {NilCtx, Background},
          abstraction \in Abstractions, fails \in SUBSET Fallible,
          target \in {Nil} \cup DOMAIN instances :
          ResolveInto(c, ctx, "", abstraction, fails, target)
SpecTarget == Init /\ [][NextTarget]_vars

\* Concurrent resolution: one owner registers factories and opens scopes
\* while no call is running; the threads then resolve through any registry.
NextRace ==
    \/ Quiet /\ \E f \in Funcs : RegisterNamedSingleton(Root, "", f)
    \/ Quiet /\ \E f \in Funcs : RegisterNamedScoped(Root, "", f)
    \/ Quiet /\ NewScope(Root)
    \/ \E th \in Threads, c \in Containers, t \in Types : MakeBegin(th, c, t)
    \/ \E th \in Threads, fails \in SUBSET Fallible : MakeInvoke(th, fails)
    \/ \E th \in Threads : MakeStore(th)
    \/ Join
SpecRace == Init /\ [][NextRace]_vars

\* Registrations under both names on a root and the scopes opened from it,
\* with resolutions under both names.
NextRegister ==
    \/ \E c \in Containers, n \in Names, f \in Funcs :
          RegisterNamedSingleton(c, n, f)
    \/ \E c \in Containers, n \in Names, v \in Values :
          RegisterNamedInstance(c, n, v)
    \/ NewScope(Root)
    \/ \E c \in Containers : ResolveWell(c, Names)

SpecRegister == Init /\ [][NextRegister]_vars

\* What the registration methods are handed besides the two factories: the
\* functions with an odd signature, a value that is no function, and nil.
OddResolvers == OddFuncs \cup Values \cup {NoResolver}

\* The registrations of anything on registry c under name n.
RegisterAnything(c, n) ==
    \/ \E f \in OddResolvers : RegisterNamedSingleton(c, n, f)
    \/ \E f \in OddResolvers : RegisterNamedTransient(c, n, f)
    \/ \E f \in OddResolvers : RegisterNamedScoped(c, n, f)
    \/ \E v \in Funcs \cup OddResolvers : RegisterNamedInstance(c, n, v)
    \/ \E f \in OddResolvers : Register(c, f, n, "")

\* A single registry: Singleton factories, registrations of anything under
\* both names, accepted or rejected, and resolutions.
NextReject ==
    \/ \E f \in Funcs : RegisterNamedSingleton(Root, "", f)
    \/ \E n \in Names : RegisterAnything(Root, n)
    \/ ResolveWell(Root, {""})

SpecReject == Init /\ [][NextReject]_vars

\* ------------------------------------------------------------------ claims
\* The latest operation was a resolution through last.c that succeeded.
Resolved == last.op = "ResolveNamed" /\ last.err = NoError

\* The registry whose binding a resolution of (t, n) through c uses.
Owner(c, t, n) == Find(bindings, parent, c, t, n)

\* The binding the latest resolution used.
LastOwner == Owner(last.c, last.t, last.n)
LastBinding == bindings[LastOwner][last.t][last.n]

\* C1: two successful resolutions of a Singleton binding's key through the
\* same registry, with no registration or Reset in between that replaces or
\* drops the binding, return the identical instance.
C1_SingletonSameInstance ==
    (Resolved /\ LastBinding.lifetime = Singleton /\ last.before # Nil)
        => last.val = last.before

\* A Singleton factory binding resolved twice through one registry.
C1_Witness ==
    /\ Resolved
    /\ LastBinding.lifetime = Singleton
    /\ LastBinding.resolver # NoResolver
    /\ last.before # Nil

\* The bindings of all registries, as (registry, type, name) triples.
Bound == {x \in Containers \X Types \X Names : Has(bindings, x[1], x[2], x[3])}
BindingAt(x) == bindings[x[1]][x[2]][x[3]]

\* The factory call that returned the value of the latest operation.
MadeNow ==
    /\ last.calls # << >>
    /\ last.calls[Len(last.calls)].val = last.val
    /\ last.val = Len(instances)

\* C2: a Transient binding never holds a cached instance, and every
\* resolution of it calls its factory and returns the instance that call
\* created, which no earlier resolution can have returned.
C2_TransientAlwaysNew ==
    /\ \A x \in Bound :
          BindingAt(x).lifetime = Transient => BindingAt(x).concrete = Nil
    /\ (Resolved /\ LastBinding.lifetime = Transient) =>
          /\ MadeNow
          /\ last.calls[Len(last.calls)].f = LastBinding.resolver
          /\ last.val # last.before

\* C3: two successful resolutions of a Scoped binding's key through the same
\* registry, a scope or the root, return the identical instance.
C3_ScopedSameInstance ==
    (Resolved /\ LastBinding.lifetime = Scoped /\ last.before # Nil)
        => last.val = last.before

\* A Scoped key resolved twice through a scope that holds its own copy.
C3_Witness ==
    /\ Resolved
    /\ LastBinding.lifetime = Scoped
    /\ last.c # Root
    /\ LastOwner = last.c
    /\ last.before # Nil

\* Two distinct scopes created from the same parent.
Siblings(a, b) ==
    a # b /\ parent[a] # NoParent /\ parent[a] = parent[b]

\* Key k resolves to a Scoped binding through c.
ScopedVia(c, k) ==
    /\ Owner(c, k[1], k[2]) # 0
    /\ bindings[Owner(c, k[1], k[2])][k[1]][k[2]].lifetime = Scoped

\* Registry c holds, in its own map, a Scoped binding of k with a factory.
OwnScoped(c, k) ==
    /\ Has(bindings, c, k[1], k[2])
    /\ bindings[c][k[1]][k[2]].lifetime = Scoped
    /\ bindings[c][k[1]][k[2]].resolver # NoResolver

\* C4: whenever a Scoped key resolves through two sibling scopes, the two
\* instances differ.
C4_SiblingsNeverShare ==
    \A a, b \in Containers, k \in Keys :
        (/\ Siblings(a, b)
         /\ ScopedVia(a, k) /\ ScopedVia(b, k)
         /\ got[a][k] # Nil /\ got[b][k] # Nil)
            => got[a][k] # got[b][k]

\* c is a scope opened on a scope.
Grandchild(c) == parent[c] # NoParent /\ parent[parent[c]] # NoParent

\* The cache slot of registry c's own binding of key k.
Cache(c, k) == bindings[c][k[1]][k[2]].concrete

\* C5: for a Scoped binding registered at the root, a scope opened on a scope
\* has its own cache for the key: what it resolves is cached in its own map
\* and is no ancestor's instance; its first resolution calls the factory and
\* returns a new instance; its later resolutions return that instance
\* without calling the factory.
C5_GrandchildOwnCache ==
    (/\ Resolved
     /\ Grandchild(last.c)
     /\ OwnScoped(Root, <<last.t, last.n>>)
     /\ ScopedVia(last.c, <<last.t, last.n>>)) =>
        LET k == <<last.t, last.n>> IN
        /\ Has(bindings, last.c, last.t, last.n)
        /\ last.val = Cache(last.c, k)
        /\ last.val # got[parent[last.c]][k]
        /\ last.val # got[Root][k]
        /\ last.before = Nil =>
              /\ MadeNow
              /\ last.calls[Len(last.calls)].f = LastBinding.resolver
        /\ last.before # Nil =>
              /\ last.val = last.before
              /\ last.calls = << >>

\* What Resolve returns for type t when t's own factory reports a failure.
FactoryFailure(t) == ErrResolutionFailed(t, <<Err("FactoryError", t)>>)

\* The latest operation resolved a key whose binding caches.
ResolvedCaching ==
    /\ last.op = "ResolveNamed"
    /\ LastOwner # 0
    /\ LastBinding.lifetime # Transient

\* C6: when the factory of a Singleton or Scoped binding reports a failure,
\* Resolve returns it and the binding's cache slot stays empty; the same
\* request made next calls the factory again, and if the factory succeeds
\* its value is returned and cached.
C6_FailureNotCached ==
    /\ (ResolvedCaching /\ last.err = FactoryFailure(last.t)) =>
          LastBinding.concrete = Nil
    /\ (/\ ResolvedCaching
        /\ last.retry.err = FactoryFailure(last.t)
        /\ last.err \in {NoError, FactoryFailure(last.t)}) =>
          /\ last.calls # << >>
          /\ last.calls[Len(last.calls)].f = LastBinding.resolver
          /\ last.err = NoError =>
                /\ MadeNow
                /\ LastBinding.concrete = last.val

\* A request that failed in its own factory was repeated and succeeded.
C6_Witness ==
    /\ ResolvedCaching
    /\ last.retry.err = FactoryFailure(last.t)
    /\ last.err = NoError
    /\ LastBinding.concrete = last.val

\* The operations that resolve.
Resolving == {"ResolveNamed", "Call", "Fill", "Validate"}

\* C7 as claimed: an operation that resolves and returns an error leaves
\* every cache slot as it was.
C7_FailureNeverMutates ==
    [][(last'.op \in Resolving /\ last'.err # NoError)
          => bindings' = bindings]_vars

\* C7: an operation that resolves and returns an error keeps every binding,
\* never changes a filled cache slot, and fills an empty one only for a
\* Singleton or Scoped binding whose own factory succeeded during the
\* operation, with the instance that call created.
C7_FailureKeepsResolved ==
    [][(last'.op \in Resolving /\ last'.err # NoError) =>
          /\ DOMAIN bindings' = DOMAIN bindings
          /\ \A c \in Containers : DOMAIN bindings'[c] = DOMAIN bindings[c]
          /\ \A x \in Bound :
                LET old == BindingAt(x)
                    new == bindings'[x[1]][x[2]][x[3]]
                IN /\ DOMAIN bindings'[x[1]][x[2]] = DOMAIN bindings[x[1]][x[2]]
                   /\ new.resolver = old.resolver
                   /\ new.lifetime = old.lifetime
                   /\ old.concrete # Nil => new.concrete = old.concrete
                   /\ (old.concrete = Nil /\ new.concrete # Nil) =>
                         /\ old.lifetime # Transient
                         /\ \E i \in DOMAIN last'.calls :
                               /\ last'.calls[i].f = old.resolver
                               /\ last'.calls[i].val = new.concrete
                               /\ new.concrete > Len(instances)
                               /\ new.concrete <= Len(instances')]_vars

\* An operation failed after an instance it created was cached.
C7_Witness ==
    /\ last.op \in Resolving
    /\ last.err # NoError
    /\ \E i \in DOMAIN last.calls, x \in Bound :
          /\ last.calls[i].val # Nil
          /\ BindingAt(x).concrete = last.calls[i].val

\* C8: when a resolution fails because a dependency has no binding, and the
\* dependency is then registered on the chain, the same request made next
\* succeeds, unless a factory fails or a different dependency is missing.
C8_RetryAfterRegistering ==
    (last.op = "ResolveNamed" /\ last.retry.fixed) =>
        \/ last.err = NoError
        \/ ErrIs(last.err, "FactoryError")
        \/ Missing(last.err) \notin {"", Missing(last.retry.err)}

\* A request failed for a missing dependency, the dependency was registered,
\* and the repeated request succeeded.
C8_Witness ==
    /\ Resolved
    /\ last.retry.fixed
    /\ Missing(last.retry.err) # ""
    /\ Missing(last.retry.err) # last.t

\* The parameters of factory f that are resolved from the registry.
Dependencies(f) == {p \in DOMAIN In(f) : In(f)[p] # ContextType}

Holders(c, t, n) ==
    {i \in DOMAIN Chain(parent, c) :
        Has(bindings, Chain(parent, c)[i], t, n)}
Nearest(c, t, n) ==
    IF Holders(c, t, n) = {} THEN 0
    ELSE Chain(parent, c)[CHOOSE i \in Holders(c, t, n) :
                             \A j \in Holders(c, t, n) : i <= j]

\* C10: a resolution of key K through registry R uses the binding of the
\* nearest registry on R's chain that holds K, and reports BindingNotFound
\* for K exactly when no registry on the chain holds it.
C10_NearestBinding ==
    (last.op = "ResolveNamed" /\ last.ctx # NilCtx /\ last.t \in Types) =>
        LET o == Nearest(last.c, last.t, last.n) IN
        /\ (last.err = ErrResolutionFailed(last.t, ErrBindingNotFound(last.t)))
              <=> (o = 0)
        /\ last.err = NoError =>
              /\ o # 0
              /\ \/ bindings[o][last.t][last.n].concrete = last.val
                 \/ /\ bindings[o][last.t][last.n].lifetime = Transient
                    /\ MadeNow
                    /\ last.calls[Len(last.calls)].f
                          = bindings[o][last.t][last.n].resolver

\* A scope resolved a key through its own binding although its parent holds
\* a binding of the key too.
C10_Witness ==
    /\ Resolved
    /\ last.c # Root
    /\ Nearest(last.c, last.t, last.n) = last.c
    /\ Has(bindings, parent[last.c], last.t, last.n)
    /\ Cache(parent[last.c], <<last.t, last.n>>) # last.val

\* The bindings of all registries over every key, as (registry, type, name)
\* triples.
Triples == {<<c, k[1], k[2]>> : c \in Containers, k \in Keys}
Held(b) == {x \in Triples : Has(b, x[1], x[2], x[3])}

\* The operations that register.
Registering == {"RegisterNamedInstance", "RegisterNamedSingleton",
                "RegisterNamedTransient", "RegisterNamedScoped", "Register"}

\* The binding a registration of resolver x creates: a function is kept as
\* the resolver with nothing cached, anything else is the instance itself.
Fresh(x, lifetime) ==
    IF IsFunc(x) THEN Binding(x, Nil, lifetime)
    ELSE Binding(NoResolver, x, lifetime)

\* C11: a successful registration at (type, name) on a registry inserts or
\* replaces exactly that key in that registry's own map, the new binding
\* holds no cache of the one it replaces, and every other key (the same type
\* under another name included) and every other registry keeps its binding
\* and its cache.
C11_RegistrationFrame ==
    [][(last'.op \in Registering /\ last'.err = NoError) =>
         LET x == <<last'.c, last'.t, last'.n>> IN
         /\ Held(bindings') = Held(bindings) \cup {x}
         /\ \E l \in Lifetimes :
                bindings'[x[1]][x[2]][x[3]] = Fresh(last'.val, l)
         /\ \A y \in Held(bindings) \ {x} :
                bindings'[y[1]][y[2]][y[3]] = BindingAt(y)
         /\ parent' = parent
         /\ instances' = instances]_vars

\* A registration has just replaced a binding that held a cached instance:
\* it is the second registration, an instance was made in between, and no
\* binding caches an instance.
C11_Witness ==
    /\ last.op \in Registering
    /\ last.err = NoError
    /\ changes = 2
    /\ instances # << >>
    /\ \A y \in Held(bindings) : BindingAt(y).concrete \notin 1..MaxInstances

\* The registry a lookup of key k through d ends at once registry c holds
\* nothing: the one it ended at before, or, when that was c, the one a lookup
\* through c's parent ends at (0: none).
PastReset(c, d, k) ==
    IF Owner(d, k[1], k[2]) # c THEN Owner(d, k[1], k[2])
    ELSE IF parent[c] = NoParent THEN 0
    ELSE Owner(parent[c], k[1], k[2])

\* C12: Reset on a registry removes every binding of that registry's own
\* map and changes nothing else: every other registry keeps its bindings and
\* caches, no instance is made, the tree is the same, and a lookup that
\* ended at the reset registry now ends where a lookup through its parent
\* ends.
C12_ResetFrame ==
    [][last'.op = "Reset" =>
         /\ \A x \in Held(bindings') : x[1] # last'.c
         /\ \A d \in Containers \ {last'.c} : bindings'[d] = bindings[d]
         /\ parent' = parent
         /\ instances' = instances
         /\ \A d \in Containers, k \in Keys :
                Find(bindings', parent', d, k[1], k[2]) =
                    PastReset(last'.c, d, k)]_vars

\* A scope has just been reset whose own binding cached an instance: the
\* one registration was of a caching binding on the root, an instance was
\* made, no binding caches it, and the scope's lookup ends at the root.
C12_Witness ==
    /\ last.op = "Reset"
    /\ last.c # Root
    /\ changes = 2
    /\ instances # << >>
    /\ \E k \in Keys : Owner(last.c, k[1], k[2]) = Root
    /\ \A y \in Held(bindings) :
          /\ BindingAt(y).lifetime # Transient
          /\ BindingAt(y).concrete = Nil

\* A step that leaves every binding with its cache, makes no instance and
\* keeps the tree.
NothingBound ==
    /\ Held(bindings') = Held(bindings)
    /\ \A y \in Held(bindings) : bindings'[y[1]][y[2]][y[3]] = BindingAt(y)
    /\ parent' = parent
    /\ instances' = instances

\* The functions with a parameter of the type they return.
SelfDependent ==
    {f \in Funcs \cup OddFuncs \cup ContextFuncs :
        /\ Len(Out(f)) > 0
        /\ \E i \in DOMAIN In(f) : In(f)[i] = Out(f)[1]}

\* C13: the registration of a factory with a parameter of the type it
\* returns fails with InvalidResolver and adds or replaces no binding: a
\* binding already at that key stays, with its cache.
C13_SelfDependentRejected ==
    [][(last'.op \in Registering /\ last'.val \in SelfDependent) =>
         /\ ErrIs(last'.err, "InvalidResolver")
         /\ NothingBound]_vars

\* A self-dependent factory has just been rejected at a key whose binding
\* holds a cached instance.
C13_Witness ==
    /\ last.op \in Registering \ {"RegisterNamedInstance"}
    /\ last.val \in SelfDependent
    /\ ErrIs(last.err, "InvalidResolver")
    /\ Has(bindings, last.c, last.t, last.n)
    /\ bindings[last.c][last.t][last.n].concrete \in 1..MaxInstances

\* The resolvers that are functions returning one value, or one value and
\* an error.
OneValue ==
    {f \in Funcs \cup OddFuncs \cup ContextFuncs :
        \/ Len(Out(f)) = 1
        \/ Len(Out(f)) = 2 /\ Out(f)[2] = "error"}

\* The resolvers other than nil that are no function, or return nothing or
\* more than two values.
NoFactory ==
    {x \in (Funcs \cup OddResolvers) \ {NoResolver} :
        ~IsFunc(x) \/ Len(Out(x)) = 0 \/ Len(Out(x)) > 2}

\* C14: RegisterNamedSingleton, RegisterNamedTransient and
\* RegisterNamedScoped accept a resolver only if it is a function returning
\* one value, or one value and an error; a resolver that is no function, or
\* returns nothing or more than two values, is rejected with InvalidResolver
\* and nothing is registered.
C14_OnlyFactoriesAccepted ==
    [][last'.op \in {"RegisterNamedSingleton", "RegisterNamedTransient",
                     "RegisterNamedScoped"} =>
         /\ last'.err = NoError => last'.val \in OneValue
         /\ last'.val \in NoFactory =>
                ErrIs(last'.err, "InvalidResolver") /\ NothingBound]_vars

\* C15: RegisterNamedInstance (RegisterInstance is the same call with the
\* empty name) handed a function fails with InvalidResolver and leaves the
\* registry's bindings, and everything else, as they were.
C15_InstanceRejectsCallable ==
    [][(last'.op = "RegisterNamedInstance" /\ IsFunc(last'.val)) =>
         /\ ErrIs(last'.err, "InvalidResolver")
         /\ bindings' = bindings
         /\ parent' = parent
         /\ instances' = instances]_vars

\* A function has just been rejected as an instance at a key whose binding
\* holds a cached instance.
C15_Witness ==
    /\ last.op = "RegisterNamedInstance"
    /\ IsFunc(last.val)
    /\ ErrIs(last.err, "InvalidResolver")
    /\ Has(bindings, last.c, last.t, last.n)
    /\ bindings[last.c][last.t][last.n].concrete \in 1..MaxInstances

\* Registry r holds, for the key of the latest resolution, a binding of a
\* precomputed instance.
HoldsInstance(r) ==
    /\ Has(bindings, r, last.t, last.n)
    /\ bindings[r][last.t][last.n].resolver = NoResolver

\* C16, as stated: while a registry holds the binding of an instance v for
\* a key, every resolution of the key through that registry or any scope
\* descended from it returns exactly v and calls no factory.
C16_InstanceEverywhereBelow ==
    last.op = "ResolveNamed" =>
        \A r \in ChainSet(parent, last.c) :
            HoldsInstance(r) =>
                /\ last.err = NoError
                /\ last.val = bindings[r][last.t][last.n].concrete
                /\ last.calls = << >>

\* C16, amended: while a registry holds the binding of an instance v for a
\* key, every resolution of the key through that registry, or through a
\* scope descended from it for which that binding is the nearest one on its
\* chain, returns exactly v and calls no factory.
C16_InstanceWhereNearest ==
    last.op = "ResolveNamed" =>
        \A r \in ChainSet(parent, last.c) :
            (HoldsInstance(r) /\ Nearest(last.c, last.t, last.n) = r) =>
                /\ last.err = NoError
                /\ last.val = bindings[r][last.t][last.n].concrete
                /\ last.val \in Values
                /\ last.calls = << >>

\* A scope has resolved the instance registered on an ancestor, after an
\* earlier resolution through it.
C16_Witness ==
    /\ last.op = "ResolveNamed"
    /\ last.c # Root
    /\ \E r \in ChainSet(parent, last.c) \ {last.c} :
          HoldsInstance(r) /\ Nearest(last.c, last.t, last.n) = r
    /\ last.val \in Values
    /\ last.before \in Values

\* The smallest element of a nonempty set of positions.
First(S) == CHOOSE i \in S : \A j \in S : i <= j

\* The types without a binding on the chain of c among the key (t, n) and
\* its transitive dependencies, whatever is cached.
RECURSIVE Lacking(_, _, _)
Lacking(c, t, n) ==
    IF Nearest(c, t, n) = 0 THEN {t}
    ELSE LET f == bindings[Nearest(c, t, n)][t][n].resolver IN
         IF f = NoResolver THEN {}
         ELSE UNION {Lacking(c, In(f)[p], "") : p \in Dependencies(f)}

\* The type without a binding that making the arguments of f through c comes
\* to first, and that a resolution of (t, n) through c comes to, going only
\* through bindings that hold no instance; "" when there is none.
RECURSIVE Unmet(_, _, _), UnmetOf(_, _)
UnmetOf(c, f) ==
    LET bad == {p \in Dependencies(f) : Unmet(c, In(f)[p], "") # ""} IN
    IF bad = {} THEN "" ELSE Unmet(c, In(f)[First(bad)], "")
Unmet(c, t, n) ==
    IF Nearest(c, t, n) = 0 THEN t
    ELSE LET b == bindings[Nearest(c, t, n)][t][n] IN
         IF b.concrete # Nil THEN "" ELSE UnmetOf(c, b.resolver)

\* The keys a fill of the structure asks for.
Asked(structure) ==
    {<<Fields(structure)[i].type,
       IF Fields(structure)[i].tag = "type" THEN ""
       ELSE Fields(structure)[i].name>> :
        i \in {j \in DOMAIN Fields(structure) : Fields(structure)[j].tag # ""}}

\* The keys operation op on registry c asks for (x: the receiver of a call,
\* the structure of a fill), as resolutions and as arguments.
AskedKeys(op, c, t, n, x) ==
    IF op = "ResolveNamed" THEN {<<t, n>>}
    ELSE IF op = "Call" THEN {<<In(x)[p], "">> : p \in Dependencies(x)}
    ELSE IF op = "Fill" THEN Asked(x)
    ELSE OwnKeys(bindings[c])

\* What the operation lacks, cached or not, and what it comes to.
AllLacking(op, c, t, n, x) ==
    UNION {Lacking(c, k[1], k[2]) : k \in AskedKeys(op, c, t, n, x)}
AllUnmet(op, c, t, n, x) ==
    {Unmet(c, k[1], k[2]) : k \in AskedKeys(op, c, t, n, x)} \ {""}

\* The error says the resolution failed for want of a binding of one of the
\* types.
ReportsMissing(err, types) ==
    /\ err # NoError
    /\ err[1].k = "ResolutionFailed"
    /\ Missing(err) \in types

\* C17, as stated: when the requested key or a transitive dependency of it
\* has no binding on the chain, ResolveNamed, Call, Fill and Validate with a
\* context return ResolutionFailed wrapping BindingNotFound for that type.
C17_LackingReported ==
    [][(last'.op \in Resolving /\ last'.ctx # NilCtx) =>
         LET lacking == AllLacking(last'.op, last'.c, last'.t, last'.n,
                                   last'.val)
         IN lacking # {} => ReportsMissing(last'.err, lacking)]_vars

\* A factory called by the operation failed.
FactoryFailed(calls) ==
    \E i \in DOMAIN calls : calls[i].f \in Funcs /\ calls[i].val = Nil

\* C17, amended: when the requested key has no binding on the chain, or a
\* transitive dependency that has to be made because no instance of its
\* dependent is cached has none, ResolveNamed, Call, Fill and Validate with
\* a context return ResolutionFailed wrapping BindingNotFound for such a
\* type, unless a factory called earlier in the operation failed.
C17_UnmetReported ==
    [][(last'.op \in Resolving /\ last'.ctx # NilCtx) =>
         LET unmet == AllUnmet(last'.op, last'.c, last'.t, last'.n,
                               last'.val)
         IN unmet # {} =>
                \/ FactoryFailed(last'.calls)
                \/ ReportsMissing(last'.err, unmet)]_vars

\* A call, a fill or a validation through a scope has just failed for want
\* of a binding of a dependency of a factory.
C17_Witness ==
    /\ last.op \in Resolving \ {"ResolveNamed"}
    /\ last.c # Root
    /\ Len(last.err) > 2
    /\ ReportsMissing(last.err,
                      AllUnmet(last.op, last.c, last.t, last.n, last.val))

\* The error a resolution of key k through c returns in the present state
\* when the factories in fails fail.
ErrorOf(c, fails, k) ==
    Make(World(bindings, instances, got), parent, c, Background, fails,
         k[1], k[2]).err

\* The own keys of c whose resolution through c fails.
Failing(c, fails) ==
    {k \in OwnKeys(bindings[c]) : ErrorOf(c, fails, k) # NoError}

\* Whether a validation of c visiting its keys in the given order succeeds.
Passes(c, fails, order) ==
    ValidateOn(World(bindings, instances, got), parent, c, Background, fails,
               order).err = NoError

\* C18: Validate on a registry returns no error exactly when the resolution
\* through that registry of every key of its own map succeeds, and
\* otherwise the error the resolution of one of the failing keys returns;
\* whether it succeeds is the same for every order of visiting the keys.
C18_ValidateAllOwnKeys ==
    [][(last'.op = "Validate" /\ last'.ctx # NilCtx) =>
         /\ last'.err = NoError <=> Failing(last'.c, last'.fails) = {}
         /\ last'.err # NoError =>
                \E k \in Failing(last'.c, last'.fails) :
                    last'.err = ErrorOf(last'.c, last'.fails, k)
         /\ \A o1, o2 \in Orders(OwnKeys(bindings[last'.c])) :
                Passes(last'.c, last'.fails, o1) <=>
                    Passes(last'.c, last'.fails, o2)]_vars

\* A validation of a registry with two keys has just returned the error of
\* one key after the factory of the other was called and succeeded.
C18_Witness ==
    /\ last.op = "Validate"
    /\ last.err # NoError
    /\ Cardinality(OwnKeys(bindings[last.c])) = 2
    /\ \E i \in DOMAIN last.calls : last.calls[i].val # Nil

\* C19: ResolveNamed (Resolve is the same call with the empty name), Call,
\* Fill and Validate handed a nil context return ContextRequired and nothing
\* else happens: no binding is looked up or changed, no factory or receiver
\* is called, no cache is written, and the variable or the fields to fill
\* are as they were.
C19_NilContextRefused ==
    [][(last'.op \in Resolving /\ last'.ctx = NilCtx) =>
         /\ last'.err = ErrContextRequired
         /\ last'.calls = << >>
         /\ bindings' = bindings
         /\ instances' = instances
         /\ got' = got
         /\ parent' = parent
         /\ last'.op = "ResolveNamed" => last'.val = Nil
         /\ last'.op = "Fill" => last'.filled = Untouched(last'.val)]_vars

\* An operation without a context has just been refused on a registry
\* that holds a binding with nothing cached, which it would have made.
C19_Witness ==
    /\ last.op \in Resolving
    /\ last.ctx = NilCtx
    /\ last.err = ErrContextRequired
    /\ last.op = "ResolveNamed" =>
          /\ Has(bindings, last.c, last.t, last.n)
          /\ bindings[last.c][last.t][last.n].concrete = Nil
    /\ last.op # "ResolveNamed" =>
          /\ Has(bindings, last.c, "Options", "")
          /\ Has(bindings, last.c, "Database", "")
          /\ bindings[last.c]["Database"][""].concrete = Nil

\* The parameters of function f that are typed as the context.
ContextParameters(f) == {p \in DOMAIN In(f) : In(f)[p] = ContextType}

\* C20: every parameter of a factory or a receiver that is typed as the
\* context receives the context handed to the operation that caused the
\* call, at every depth of the resolution, and the context is never looked
\* up in the registry: a factory registered for the context type is called
\* only when the context type is itself the key resolved or validated.
C20_ContextPassedDown ==
    last.op \in Resolving =>
        \A i \in DOMAIN last.calls :
            /\ \A p \in ContextParameters(last.calls[i].f) :
                  last.calls[i].args[p] = last.ctx
            /\ last.calls[i].f = NewContext =>
                  \/ last.op = "Validate"
                  \/ last.op = "ResolveNamed" /\ last.t = ContextType

\* A factory called for the argument of a function that takes the context
\* too has just received the context of the operation, while a factory is
\* registered for the context type.
C20_Witness ==
    /\ last.op \in Resolving
    /\ last.ctx = Todo
    /\ Has(bindings, Root, ContextType, "")
    /\ \E i \in DOMAIN last.calls :
          /\ ContextParameters(last.calls[i].f) # {}
          /\ last.calls[i].args[1] = Todo
          /\ \E j \in DOMAIN last.calls :
                /\ j > i
                /\ ContextParameters(last.calls[j].f) # {}
                /\ last.calls[i].val \in
                      {last.calls[j].args[p] :
                          p \in DOMAIN last.calls[j].args}

\* The latest operation was a call with a context that reached the
\* receiver: every argument was resolved and the receiver was called.
ReceiverCalled ==
    /\ last.op = "Call"
    /\ last.ctx # NilCtx
    /\ last.calls # << >>
    /\ last.calls[Len(last.calls)].f = last.val

\* C21: Call with a context returns InvalidReceiver for a receiver that is
\* no function; for a function whose arguments all resolve it returns
\* success when the function returns nothing, success or the function's own
\* error when it returns one error, and InvalidReceiver for every other
\* shape of results.
C21_CallOutcome ==
    (last.op = "Call" /\ last.ctx # NilCtx) =>
        /\ ~IsFunc(last.val) => last.err = ErrInvalidReceiver
        /\ ReceiverCalled =>
              IF Len(Out(last.val)) = 0 THEN last.err = NoError
              ELSE IF Out(last.val) = <<"error">>
              THEN last.err \in {NoError, ErrReceiver}
              ELSE last.err = ErrInvalidReceiver

\* The fields of structure s that carry the annotation, and the key the
\* mode of field i selects.
Annotated(s) == {i \in DOMAIN Fields(s) : Fields(s)[i].tag # ""}
FieldKey(s, i) ==
    <<Fields(s)[i].type,
      IF Fields(s)[i].tag = "type" THEN "" ELSE Fields(s)[i].name>>

\* The instances the calls of factory f in the latest operation returned.
MadeBy(f) ==
    {last.calls[j].val :
        j \in {x \in DOMAIN last.calls : last.calls[x].f = f}} \ {Nil}

\* Field i of the filled structure holds what the nearest binding of its
\* key gives: the instance the binding caches, or for a Transient binding
\* an instance its factory made during the fill.
HoldsResolved(s, i) ==
    LET k == FieldKey(s, i)
        o == Nearest(last.c, k[1], k[2])
    IN /\ o # 0
       /\ last.filled[i] # Nil
       /\ \/ bindings[o][k[1]][k[2]].concrete = last.filled[i]
          \/ /\ bindings[o][k[1]][k[2]].lifetime = Transient
             /\ last.filled[i] \in MadeBy(bindings[o][k[1]][k[2]].resolver)

\* C22: a successful Fill leaves in each annotated field the result of
\* resolving the key its mode selects, (type, "") for mode type and (type,
\* the field's identifier) for mode name, and leaves every field without
\* the annotation as it was; the case of the identifier plays no part.
C22_FillByMode ==
    (last.op = "Fill" /\ last.err = NoError) =>
        \A i \in DOMAIN Fields(last.val) :
            IF i \in Annotated(last.val) THEN HoldsResolved(last.val, i)
            ELSE last.filled[i] = Nil

\* A structure with a field of mode name, a field of mode type of the same
\* type and a field without annotation has just been filled, the two
\* annotated fields with different instances.
C22_Witness ==
    /\ last.op = "Fill"
    /\ last.err = NoError
    /\ last.val = Named
    /\ last.filled[1] # last.filled[2]
    /\ last.filled[3] = Nil

\* The fields of structure s whose annotation has a mode other than type
\* and name.
BadModes(s) ==
    {i \in Annotated(s) : Fields(s)[i].tag \notin {"type", "name"}}

\* C23: a Fill, with a context, of a structure that has a field with an
\* unrecognized mode returns InvalidStructure and writes no field of the
\* structure, wherever the offending field stands.
C23_BadModeInjectsNothing ==
    (/\ last.op = "Fill"
     /\ last.ctx # NilCtx
     /\ last.val \in Structures \cup MoreStructures
     /\ BadModes(last.val) # {}) =>
        /\ last.err = ErrInvalidStructure
        /\ last.filled = Untouched(last.val)

\* The factories a resolution of key (t, n) through registry c can reach:
\* the factory of the nearest binding and those of its parameters.
RECURSIVE FactoriesOf(_, _, _)
FactoriesOf(c, t, n) ==
    IF Nearest(c, t, n) = 0 THEN {}
    ELSE LET f == bindings[Nearest(c, t, n)][t][n].resolver IN
         IF ~IsFunc(f) THEN {}
         ELSE {f} \cup UNION {FactoriesOf(c, In(f)[p], "") :
                                 p \in Dependencies(f)}

\* The Fill that has just returned failed to resolve field i: the error
\* names the field, the annotated fields before it hold their resolved
\* values, the field and all after it are as they were, only factories
\* that the fields up to i reach were called, and the one call that failed
\* is the last call.
AbortedAt(i) ==
    /\ last.err[1].t = Fields(last.val)[i].name
    /\ \A j \in Annotated(last.val) : j < i => HoldsResolved(last.val, j)
    /\ \A j \in DOMAIN Fields(last.val) : j >= i => last.filled[j] = Nil
    /\ \A x \in DOMAIN last.calls :
           /\ last.calls[x].f \in
                  UNION {FactoriesOf(last.c, FieldKey(last.val, j)[1],
                                     FieldKey(last.val, j)[2]) :
                            j \in {a \in Annotated(last.val) : a <= i}}
           /\ last.calls[x].val = Nil => x = Len(last.calls)

\* C30: a Fill that returns ResolutionFailed stopped at the first
\* annotated field, in declaration order, whose resolution failed: the
\* error names that field, earlier fields hold their resolved values, and
\* that field and the later ones are unchanged and were not resolved.
C30_FillAbortsAtFirstFailure ==
    (/\ last.op = "Fill"
     /\ last.err # NoError
     /\ last.err[1].k = "ResolutionFailed") =>
        \E i \in Annotated(last.val) : AbortedAt(i)

\* A Fill has just failed at its second annotated field, which the error
\* names, after it wrote the first.
C30_Witness ==
    /\ last.op = "Fill"
    /\ last.err # NoError
    /\ last.err[1].k = "ResolutionFailed"
    /\ last.val = Service
    /\ last.err[1].t = "Database"
    /\ last.filled[1] # Nil
    /\ last.filled[2] = Nil

\* Threads a and b have each returned from resolving the key of one
\* Singleton or Scoped binding through one registry, and each found the
\* cache of the binding empty and had its factory call succeed.
BothFoundEmpty(a, b) ==
    /\ a # b
    /\ threads[a].pc = "done" /\ threads[b].pc = "done"
    /\ threads[a].c = threads[b].c
    /\ threads[a].t = threads[b].t
    /\ threads[a].o # 0
    /\ threads[a].o = threads[b].o
    /\ bindings[threads[a].o][threads[a].t][""].lifetime # Transient
    /\ threads[a].seen = Nil /\ threads[b].seen = Nil
    /\ threads[a].err = NoError /\ threads[b].err = NoError

\* C24: the check of the cache, the invocation and the store of binding.make
\* are separate steps: two threads that resolve the same unresolved
\* Singleton or Scoped key on one registry and both read the empty cache
\* each invoke the factory, and each returns the instance of its own
\* invocation, so the factory has run more than once and the callers hold
\* different instances.
C24_RaceInvokesTwice ==
    \A a, b \in Threads :
        BothFoundEmpty(a, b) =>
            /\ threads[a].val # threads[b].val
            /\ \A x \in {a, b} :
                   /\ threads[x].val \in DOMAIN instances
                   /\ instances[threads[x].val].f =
                          bindings[threads[x].o][threads[x].t][""].resolver

\* Two threads have resolved one Singleton key on the root, both read the
\* empty cache and both returned; the cache holds the instance of one of
\* them.
C24_Witness ==
    \E a, b \in Threads :
        /\ BothFoundEmpty(a, b)
        /\ threads[a].c = Root
        /\ bindings[Root][threads[a].t][""].lifetime = Singleton
        /\ threads[a].val # threads[b].val
        /\ bindings[Root][threads[a].t][""].concrete = threads[b].val

\* The latest operation returned: its factory calls did not nest without
\* end.
Returned == \A i \in DOMAIN last.err : last.err[i].k # "StackOverflow"

\* C25: every Resolve, Call, Fill and Validate returns a value or an error,
\* whatever bindings the registrations before it have accepted.
C25_ResolutionTerminates ==
    last.op \in {"ResolveNamed", "Call", "Fill", "Validate"} => Returned

\* The operations that resolve; none of them registers or removes a
\* binding.
ResolutionOps == {"ResolveNamed", "Call", "Fill", "Validate"}

\* The factories whose calls in operation l completed without an error.
Completed(l) ==
    {l.calls[i].f :
        i \in {x \in DOMAIN l.calls :
                  l.calls[x].val # Nil \/ l.calls[x].f \in NilFuncs}}

\* Factory f is the factory of one binding only, and that binding is
\* Singleton or Scoped.
SoleCached(f) ==
    LET held == {x \in Held(bindings) : BindingAt(x).resolver = f} IN
    /\ Cardinality(held) = 1
    /\ \A x \in held : BindingAt(x).lifetime # Transient

\* C26: the cache of a Singleton or Scoped binding is written once: an
\* operation that resolves leaves every filled cache as it is, and the
\* factory of such a binding, having completed without error in one
\* operation, does not complete again in the next one.
C26_WriteOnce ==
    [][last'.op \in ResolutionOps =>
        /\ \A x \in Held(bindings) :
               (BindingAt(x).lifetime # Transient
                    /\ BindingAt(x).concrete # Nil) =>
                   bindings'[x[1]][x[2]][x[3]].concrete = BindingAt(x).concrete
        /\ last.op \in ResolutionOps =>
               \A f \in Completed(last) \cap Completed(last') :
                   ~SoleCached(f)]_vars

\* The keys of the bindings of map m whose lifetime is Scoped.
ScopedIn(m) == {k \in OwnKeys(m) : m[k[1]][k[2]].lifetime = Scoped}

\* C27: a NewScope on registry p that returns a child leaves the child
\* linked to p, with an own map that holds exactly the keys p's own map
\* binds with the Scoped lifetime, each with p's factory, the Scoped
\* lifetime and an empty cache, and leaves the maps and caches of all the
\* registries there were as they are.
C27_NewScopeFrame ==
    [][(last'.op = "NewScope" /\ last'.err = NoError) =>
        /\ last'.val = Len(parent) + 1
        /\ parent' = Append(parent, last'.c)
        /\ \A c \in Containers : bindings'[c] = bindings[c]
        /\ OwnKeys(bindings'[last'.val]) = ScopedIn(bindings[last'.c])
        /\ \A k \in ScopedIn(bindings[last'.c]) :
               bindings'[last'.val][k[1]][k[2]] =
                   Binding(bindings[last'.c][k[1]][k[2]].resolver, Nil,
                           Scoped)]_vars

\* A scope has just been opened from a scope whose Scoped binding is
\* resolved, while the root holds a binding that is not Scoped: the new
\* scope holds the Scoped key with an empty cache and nothing else.
C27_Witness ==
    /\ last.op = "NewScope"
    /\ last.err = NoError
    /\ last.c # Root
    /\ \E k \in ScopedIn(bindings[last.c]) :
           /\ bindings[last.c][k[1]][k[2]].concrete # Nil
           /\ bindings[last.val][k[1]][k[2]].concrete = Nil
    /\ OwnKeys(bindings[Root]) \ ScopedIn(bindings[Root]) # {}
    /\ OwnKeys(bindings[last.val]) = ScopedIn(bindings[last.c])

\* The latest operation resolved, through a scope, a key that the scope
\* binds in its own map with the Scoped lifetime.
ScopeResolvedOwn(l, b) ==
    /\ l.op = "ResolveNamed"
    /\ l.ctx # NilCtx
    /\ l.c # Root
    /\ <<l.t, l.n>> \in Keys
    /\ Has(b, l.c, l.t, l.n)
    /\ b[l.c][l.t][l.n].lifetime = Scoped

\* C28: a resolution through a scope of a Scoped key that the scope binds
\* itself writes no binding of that key but the scope's own: the binding
\* of the key in the parent and in every other registry keeps its cache as
\* it was, filled or empty, and the scope's cache, when it was empty and the
\* resolution succeeded, holds the instance returned.
C28_ScopeWritesOwnBinding ==
    [][ScopeResolvedOwn(last', bindings) =>
        /\ \A o \in Containers \ {last'.c} :
               Has(bindings, o, last'.t, last'.n) =>
                   bindings'[o][last'.t][last'.n] =
                       bindings[o][last'.t][last'.n]
        /\ (last'.err = NoError) =>
               /\ bindings'[last'.c][last'.t][last'.n].concrete = last'.val
               /\ bindings[last'.c][last'.t][last'.n].concrete
                      \in {Nil, last'.val}]_vars

\* A scope has just resolved, by a call of the factory, a Scoped key it
\* binds itself and its parent binds too with the same factory: the
\* scope's cache holds the new instance and the parent's cache does not.
C28_Witness ==
    /\ ScopeResolvedOwn(last, bindings)
    /\ last.err = NoError
    /\ last.calls # << >>
    /\ Has(bindings, parent[last.c], last.t, last.n)
    /\ bindings[parent[last.c]][last.t][last.n].resolver =
           bindings[last.c][last.t][last.n].resolver
    /\ bindings[last.c][last.t][last.n].concrete = last.val
    /\ bindings[parent[last.c]][last.t][last.n].concrete # last.val

\* The call of the latest operation that returned instance a (0 when a was
\* there before the operation, or is no instance).
Producer(a) ==
    LET made == {y \in DOMAIN last.calls :
                    a # Nil /\ last.calls[y].val = a} IN
    IF made = {} THEN 0 ELSE First(made)

\* The calls made for call x: x itself and the calls that made its
\* arguments, and theirs.
RECURSIVE Subtree(_)
Subtree(x) ==
    IF x = 0 THEN {}
    ELSE {x} \cup UNION {Subtree(Producer(last.calls[x].args[i])) :
                            i \in {j \in DOMAIN last.calls[x].args :
                                      Producer(last.calls[x].args[j]) < x}}

\* Call x was made after all its arguments were there, and what was made
\* for a later parameter was made after the whole of what was made for an
\* earlier one.
InOrder(x) ==
    LET args == last.calls[x].args IN
    /\ \A i \in DOMAIN args : args[i] # Nil /\ Producer(args[i]) < x
    /\ \A i, j \in DOMAIN args :
           i < j =>
               \A z \in Subtree(Producer(args[j])) \
                            Subtree(Producer(args[i])) :
                   z > Producer(args[i])

\* The parameter at which a failed call of a receiver stopped.
FailedAt(function) ==
    First({i \in DOMAIN In(function) : In(function)[i] = last.err[1].t})

\* C29: parameters are resolved in declaration order and depth-first: every
\* function is called after all its arguments have been made, everything
\* made for one parameter is made before anything is made for the next,
\* and when a parameter of a receiver cannot be resolved nothing is made
\* for the parameters after it and the receiver is not called.
C29_DeclarationOrder ==
    /\ \A x \in DOMAIN last.calls : InOrder(x)
    /\ (/\ last.op = "Call"
        /\ last.val \in PairReceivers
        /\ last.err # NoError
        /\ last.err[1].k = "ResolutionFailed") =>
           \A x \in DOMAIN last.calls :
               /\ last.calls[x].f # last.val
               /\ last.calls[x].f \in
                      UNION {FactoriesOf(last.c, In(last.val)[j], "") :
                                j \in 1..FailedAt(last.val)}
               /\ last.calls[x].val = Nil => x = Len(last.calls)

\* A receiver whose first parameter needs what its second parameter is has
\* just been called with three instances made for it in turn: one for the
\* dependency of the first, the first, and the second.
C29_Witness ==
    /\ last.op = "Call"
    /\ last.val = UseReverse
    /\ last.err = NoError
    /\ Len(last.calls) = 4
    /\ last.calls[4].f = UseReverse
    /\ last.calls[4].args = <<last.calls[2].val, last.calls[3].val>>
    /\ last.calls[2].args = <<last.calls[1].val>>

\* ---------------------------------------------------------------------
\* C31: a Resolve or ResolveNamed that returns an error (no context, a
\* malformed pointer, no binding for the key or for a dependency, a factory
\* that fails) leaves the caller's variable holding what it held before the
\* call; the variable holds the resolved instance only after a call that
\* returned no error.
C31_FailureKeepsTarget ==
    last.op = "ResolveNamed" =>
        IF last.err # NoError THEN last.val = last.target
        ELSE /\ last.val # Nil
             /\ last.val = got[last.c][<<last.t, last.n>>]

\* A resolution into a variable that held an instance has just failed
\* because a factory, called for it, returned an error: the variable holds
\* the instance it held.
C31_Witness ==
    /\ last.op = "ResolveNamed"
    /\ last.err # NoError
    /\ last.err[Len(last.err)].k = "FactoryError"
    /\ last.calls # << >>
    /\ last.target # Nil
    /\ last.val = last.target

\* ---------------------------------------------------------------------
\* The instances operation l handed to its caller for key k: what a
\* resolution of k returned, what the receiver of a call was passed for its
\* parameters of k's type, what a fill wrote into the fields that select k.
Delivered(l, k) ==
    IF l.op = "ResolveNamed"
    THEN IF l.err = NoError /\ <<l.t, l.n>> = k THEN {l.val} ELSE {}
    ELSE IF l.op = "Call"
    THEN IF /\ l.calls # << >>
            /\ l.calls[Len(l.calls)].f = l.val
            /\ k[2] = ""
         THEN {l.calls[Len(l.calls)].args[p] :
                  p \in {q \in DOMAIN In(l.val) : In(l.val)[q] = k[1]}}
         ELSE {}
    ELSE IF l.op = "Fill"
    THEN {l.filled[i] :
             i \in {j \in Annotated(l.val) : FieldKey(l.val, j) = k}} \ {Nil}
    ELSE {}

\* C32: Resolve, Call and Fill observe one cache.  Whatever a resolution, a
\* call or a fill through a registry hands its caller for a key whose
\* nearest binding is not Transient is the instance that binding caches,
\* and is the instance the registry handed out for the key the time before,
\* whichever operation that was.
C32_OneCache ==
    [][\A k \in Keys : \A v \in Delivered(last', k) :
          LET o == Nearest(last'.c, k[1], k[2]) IN
          (o # 0 /\ bindings[o][k[1]][k[2]].lifetime # Transient) =>
              /\ v = bindings'[o][k[1]][k[2]].concrete
              /\ got[last'.c][k] # Nil => v = got[last'.c][k]]_vars

\* A call through a scope has just passed its receiver the Database that a
\* resolution or a fill through that scope had handed out before, made by a
\* factory that is not Transient, and an earlier fill or resolution is the
\* reason the call invoked no factory.
C32_Witness ==
    /\ last.op = "Call"
    /\ last.c # Root
    /\ last.err = NoError
    /\ Len(last.calls) = 1
    /\ last.calls[1].f = UseDatabase
    /\ LET o == Nearest(last.c, "Database", "") IN
       /\ o # 0
       /\ bindings[o]["Database"][""].lifetime = Scoped
       /\ bindings[o]["Database"][""].concrete = last.calls[1].args[1]
    /\ got[last.c][<<"Database", "">>] = last.calls[1].args[1]

\* ---------------------------------------------------------------------
\* C33: the parameters of a factory are resolved from the registry the
\* request was made on, wherever the factory's binding was found: every
\* instance made during an operation on registry c was passed, for each
\* parameter, what the nearest binding of the parameter's type on c's chain
\* gives.  Hence a Singleton of the root keeps the instances of the scope
\* through which it was first resolved, and the root and every scope that
\* uses the root's binding receive that one instance.
C33_DependenciesFromRequester ==
    /\ \A i \in DOMAIN last.calls :
          last.calls[i].val # Nil =>
             \A p \in Dependencies(last.calls[i].f) :
                LET t == In(last.calls[i].f)[p]
                    o == Nearest(last.c, t, "")
                IN /\ o # 0
                   /\ \/ last.calls[i].args[p] = bindings[o][t][""].concrete
                      \/ /\ bindings[o][t][""].lifetime = Transient
                         /\ last.calls[i].args[p]
                               \in MadeBy(bindings[o][t][""].resolver)
    /\ \A c \in Containers, k \in Keys :
          (/\ Nearest(c, k[1], k[2]) = Root
           /\ bindings[Root][k[1]][k[2]].lifetime = Singleton
           /\ got[c][k] # Nil)
              => got[c][k] = Cache(Root, k)

\* The root's Singleton Database holds the Scoped options of one scope; the
\* root and a second scope, which has cached different options of its own,
\* have been handed that Database.
C33_Witness ==
    \E a, b \in Containers \ {Root} :
        /\ a # b
        /\ Has(bindings, Root, "Database", "")
        /\ bindings[Root]["Database"][""].lifetime = Singleton
        /\ Cache(Root, <<"Database", "">>) # Nil
        /\ OwnScoped(a, <<"Options", "">>) /\ OwnScoped(b, <<"Options", "">>)
        /\ Cache(a, <<"Options", "">>) # Nil
        /\ Cache(b, <<"Options", "">>) # Nil
        /\ Cache(a, <<"Options", "">>) # Cache(b, <<"Options", "">>)
        /\ instances[Cache(Root, <<"Database", "">>)].args[1]
              = Cache(a, <<"Options", "">>)
        /\ got[b][<<"Database", "">>] = Cache(Root, <<"Database", "">>)
        /\ got[Root][<<"Database", "">>] = Cache(Root, <<"Database", "">>)

\* ---------------------------------------------------------------------
\* The calls of the receiver in the latest operation, as positions in the
\* operation's sequence of calls.
ReceiverCalls == {i \in DOMAIN last.calls : last.calls[i].f = last.val}

\* The parameters of the receiver for which the registry the call was made
\* on has nothing to pass after the call: no binding on its chain, or a
\* binding whose factory could not be invoked for want of a dependency.
Unresolved ==
    {p \in Dependencies(last.val) :
        LET t == In(last.val)[p]
            o == Nearest(last.c, t, "")
        IN \/ o = 0
           \/ bindings[o][t][""].concrete = Nil}

\* C34: a call, with a context, of a function one of whose parameters fails
\* to resolve returns the error of that resolution and does not invoke the
\* function; when every parameter resolves, the function is invoked exactly
\* once, as the last step of the call, with the resolved instances, also
\* when the call then returns InvalidReceiver for the results the function
\* declares.
C34_ReceiverInvokedOnce ==
    (last.op = "Call" /\ last.ctx # NilCtx /\ IsFunc(last.val)) =>
        IF Unresolved # {}
        THEN /\ ReceiverCalls = {}
             /\ last.err # NoError
             /\ Missing(last.err) # ""
             /\ Nearest(last.c, Missing(last.err), "") = 0
        ELSE /\ ReceiverCalls = {Len(last.calls)}
             /\ \A p \in Dependencies(last.val) :
                   LET t == In(last.val)[p]
                   IN last.calls[Len(last.calls)].args[p]
                         = bindings[Nearest(last.c, t, "")][t][""].concrete

\* A receiver that returns a number and an error has just been called
\* through a scope: its parameter was resolved, it was invoked once, and the
\* call returned InvalidReceiver.
C34_Witness ==
    /\ last.op = "Call"
    /\ last.c # Root
    /\ last.val = CountAndError
    /\ last.err = ErrInvalidReceiver
    /\ ReceiverCalls = {Len(last.calls)}
    /\ Len(last.calls) = 2
    /\ last.calls[2].args[1] = last.calls[1].val

\* ---------------------------------------------------------------------
\* C35: the parameters of a factory are resolved under the empty name,
\* whatever name the factory is registered under.  Every function invoked
\* during an operation on registry c was passed, for each parameter, the
\* instance of the nearest unnamed binding of the parameter's type on c's
\* chain, which no named binding holds; and a resolution whose factory has
\* a parameter type without an unnamed binding on the chain fails with
\* BindingNotFound for that type, named bindings of the type
\* notwithstanding.
C35_ParametersUnnamed ==
    /\ \A i \in DOMAIN last.calls :
          \A p \in Dependencies(last.calls[i].f) :
             LET t == In(last.calls[i].f)[p]
                 o == Nearest(last.c, t, "")
             IN /\ o # 0
                /\ last.calls[i].args[p] = bindings[o][t][""].concrete
                /\ \A x \in Bound :
                      (x[2] = t /\ x[3] # "") =>
                         BindingAt(x).concrete # last.calls[i].args[p]
    /\ (/\ last.op = "ResolveNamed"
        /\ last.ctx # NilCtx
        /\ Nearest(last.c, last.t, last.n) # 0) =>
          LET b == bindings[Nearest(last.c, last.t, last.n)][last.t][last.n]
          IN \A p \in Dependencies(b.resolver) :
                (/\ b.concrete = Nil
                 /\ Nearest(last.c, In(b.resolver)[p], "") = 0) =>
                    /\ last.err # NoError
                    /\ Missing(last.err) = In(b.resolver)[p]
                    /\ last.calls = << >>

\* A resolution of the Database registered under a name has just failed
\* with BindingNotFound for the options, which the chain binds under a name
\* and has resolved under that name.
C35_Witness ==
    /\ last.op = "ResolveNamed"
    /\ last.t = "Database"
    /\ last.n = "main"
    /\ Nearest(last.c, "Database", "main") # 0
    /\ Missing(last.err) = "Options"
    /\ Nearest(last.c, "Options", "") = 0
    /\ Nearest(last.c, "Options", "main") # 0
    /\ got[last.c][<<"Options", "main">>] # Nil

\* ---------------------------------------------------------------------
\* C36: NewScope returns a child scope, without an error and without a
\* fault, in every state the registrations can bring a registry to, a
\* Scoped binding that holds a precomputed value instead of a factory
\* included.
C36_NewScopeNeverFaults ==
    last.op = "NewScope" =>
        /\ last.err = NoError
        /\ last.val \in Containers
        /\ parent[last.val] = last.c

\* ---------------------------------------------------------------------
\* The keys of registry c's own map whose binding caches what its factory
\* returns.
OwnCaching(c) ==
    {k \in OwnKeys(bindings[c]) :
        bindings[c][k[1]][k[2]].lifetime # Transient}

\* C37: Validate is not read-only.  A validation of registry c that returns
\* success leaves every Singleton and Scoped binding of c's own map holding
\* an instance made by the binding's factory, and a resolution of such a
\* key through c that comes next returns that instance and invokes nothing.
\* A binding of another registry that a validation of c writes belongs to
\* an ancestor of c and holds an instance that a factory invoked by the
\* validation was passed as a parameter.
C37_ValidateFillsCaches ==
    [][/\ (last'.op = "Validate" /\ last'.err = NoError) =>
             \A k \in OwnCaching(last'.c) :
                LET b == bindings'[last'.c][k[1]][k[2]] IN
                /\ b.concrete # Nil
                /\ instances'[b.concrete].f = b.resolver
       /\ (/\ last.op = "Validate" /\ last.err = NoError
           /\ last'.op = "ResolveNamed" /\ last'.c = last.c
           /\ <<last'.t, last'.n>> \in OwnCaching(last.c)) =>
             /\ last'.err = NoError
             /\ last'.calls = << >>
             /\ last'.val = bindings[last.c][last'.t][last'.n].concrete
             /\ bindings' = bindings
       /\ last'.op = "Validate" =>
             \A x \in Bound :
                (/\ x[1] # last'.c
                 /\ bindings'[x[1]][x[2]][x[3]] # BindingAt(x)) =>
                    /\ x[1] \in ChainSet(parent, last'.c)
                    /\ x[3] = ""
                    /\ \E i \in DOMAIN last'.calls :
                          \E p \in Dependencies(last'.calls[i].f) :
                             /\ In(last'.calls[i].f)[p] = x[2]
                             /\ last'.calls[i].args[p]
                                   = bindings'[x[1]][x[2]][x[3]].concrete]_vars

\* A validation of a scope has just succeeded: the scope's own Scoped
\* binding holds a Database the validation made, and the root's Singleton
\* binding of the options holds the instance that Database was passed.
C37_Witness ==
    /\ last.op = "Validate"
    /\ last.err = NoError
    /\ last.c # Root
    /\ Len(last.calls) = 2
    /\ OwnScoped(last.c, <<"Database", "">>)
    /\ Cache(last.c, <<"Database", "">>) = last.calls[2].val
    /\ ~Has(bindings, last.c, "Options", "")
    /\ bindings[Root]["Options"][""].lifetime = Singleton
    /\ Cache(Root, <<"Options", "">>) = last.calls[1].val
    /\ last.calls[2].args[1] = last.calls[1].val

====
